---- MODULE Spec2Model ----
(***************************************************************************)
(* Verification model of the SLATE tile runtime: the MOSI coherence        *)
(* protocol of a tile's instances (host + devices, owner + remote rank),   *)
(* point-to-point tile send/recv, the broadcast tree, and the OpenMP task  *)
(* graph of the QR driver impl::geqrf (src/src/geqrf.cc).                   *)
(*                                                                         *)
(* The tile catalog and the coherence engine (BaseMatrix::tileGet...,      *)
(* tileSend/tileRecv, listBcast, cubeBcastPattern) are called by the       *)
(* sources but not defined in them; they are modelled from sections 3      *)
(* and 4.3-4.5 of the specification.  The driver, its task dependences and  *)
(* the order of its coherence calls are modelled from the sources.         *)
(***************************************************************************)
EXTENDS Integers, Sequences, FiniteSets, TLC

\* ------------------------------------------------------------------------
\* Bounds of the model
\* ------------------------------------------------------------------------
NumDev == 1          \* accelerator devices per process (locations 0..NumDev-1)
MaxVal == 1          \* tile contents are drawn from 0..MaxVal
MaxInFlight == 1     \* messages in flight per directed channel
NumThreads == 2      \* threads of a process issuing acquires concurrently

\* Location of host memory (devices are d >= 0).
HostNum == -1

Devs == 0 .. (NumDev - 1)
Locs == {HostNum} \cup Devs
Val == 0 .. MaxVal

\* MOSI states of an instance; "Absent" = no instance at that location.
MOSI == {"Invalid", "Shared", "OnHold", "Modified"}
InstState == MOSI \cup {"Absent"}
Modes == {"Read", "Write", "ReadWrite"}

VARIABLES
    owner,     \* TRUE iff this process owns tile (i,j), i.e. holds its origin instance
    node,      \* the tile entry of (i,j) here: [s: Locs -> state, d: Locs -> content]
    inbox,     \* contents of (i,j) sent to this process and not yet received
    outbox,    \* contents of (i,j) sent by this process and not yet received by the peer
    failed,    \* an InternalInvariantViolation was raised (fatal)
    last       \* the coherence operation executed last: [op, l, m]

\* Several threads of one process acquiring tiles concurrently.
VARIABLES
    cat,       \* cat[x] = tile entry of tile x in this process's catalog
    lock,      \* lock[x] = thread holding the lock of tile x, 0 when free
    tpc        \* tpc[t] = what thread t is doing: [pc, x, m]

\* One process executing impl::geqrf (src/src/geqrf.cc).
VARIABLES
    qp,        \* the call: [mt, nt, la (lookahead), target, p, q, myr, myc]
    A,         \* A[<<i,j>>] = tile entry of A(i,j) in this process's catalog
    lastw,     \* lastw[<<i,j>>] = content last written to the local tile A(i,j)
    colog,     \* colog[j] = the operations applied to block-column j, in order
    tasks,     \* the tasks created so far, in program (submission) order
    st,        \* st[n] = "waiting", "running" or "done" for task n
    mpc        \* the master thread's position: [ph, k, j]

\* The participants of one listBcast item (i, j, S).
VARIABLES
    bp,        \* the item: [S, root, radix, v (root's content), rs (root's state)]
    bt,        \* bt[r] = tile entry of (i,j) in rank r's catalog
    bpc,       \* bpc[r] = "out", "recv", "send" or "done"
    sent,      \* sent[r] = how many of its children rank r has sent to
    net        \* messages in flight: [src, dst, v]

\* The ranks of a grid executing internal::permuteRows (HostTask).
VARIABLES
    pp,        \* the calls: [nt, pivot, p, q, calls (directions), tag]
    pm,        \* pm[<<t, o, j>>] = row o of tile (t, j) of A
    ppc,       \* ppc[r] = position of rank r: [c (call), j, x (loop count), ph]
    pch,       \* pch[<<src, dst>>] = rows sent from src to dst, not yet received
    plog       \* the remote swaps entered so far: [c, j, i, tag]

\* The ranks of a grid executing internal::permuteRowsCols on a lower-stored
\* Hermitian matrix.
VARIABLES
    hp,        \* the call: [pivot, p, q, dir, tag]
    hm,        \* hm[<<r, c>>] = element (r, c) of the stored tiles
    hpc,       \* hpc[r] = position of rank r: [x (loop count), k (swap), ph]
    hch,       \* hch[<<src, dst>>] = vectors sent from src to dst
    hlog,      \* the remote swaps entered so far, by rank: [x, k, tiles, tag]
    hcj,       \* the vectors conjugated by swapRow so far: [x, k, r, v, n]
    hs,        \* the calls made in each pass of the loop over the pivots
    hl         \* per rank, the calls it takes part in, in program order

\* One rank executing internal::set on a trapezoid matrix.
VARIABLES
    sp,        \* the call: [target, uplo, mt, nt, mb, nb, p, q, me, ndev]
    sm,        \* sm[<<i, j>>][<<r, c>>] = element (r, c) of tile (i, j)
    spend,     \* the tasks of the taskgroup not yet run
    sst,       \* "run", "returned" or "thrown"
    sov,       \* TRUE once a kernel wrote outside a tile
    sev,       \* per device: the phase of its task, the tiles acquired, the queue
    swr        \* per tile: the (offdiag, diag) pairs it was set with

\* A matrix created with a user tile-size function (ex13), then verified.
VARIABLES
    nu         \* [n, tileNb (user function), nt, last_nb, j, jj, ph, ok]

\* One call of pbtrs(A, B, opts).
VARIABLES
    pb         \* [in (the arguments), A (caller's view), Adata, A_, L, LT, B, solves, pc]

\* One call of internal::ttmqr, run by every rank of the grid.
VARIABLES
    tq,        \* the call: [side, op, mt, kend, p, q, off, tag, start]
    tl,        \* the loop nest walked alone: [level, step, index, steps, pairs, srcs, ph];
               \* in the distributed call tl[r] = the iterations in which rank r acts, in order
    trk,       \* trk[r] = position of rank r: [n (iteration tl[r][n]), pend, ph]
    tC,        \* tC[r][<<i, j>>] = the instances rank r has of tile C(i, j)
    tch,       \* tch[<<s, d>>] = messages sent by s to d, not yet received
    tlog       \* the sends and receives done, in order

\* makeParallelPivot (internal_swap.cc:30-74)
VARIABLES
    vp,        \* the call: direction and pivot vector
    vmap,      \* pivot_map
    vpc        \* the loop and the index i the call is at

\* device::tzset (hip/device_tzset.hip.cc)
VARIABLES
    kp,        \* the call: uplo, m, n, lda, batched, batch_count
    kA,        \* per tile, the value and the number of writes of each array element
    kth,       \* per thread block and thread, the row i its loop is at
    kst,       \* call, launched, done, returned or assert
    krow       \* per tile and row, the threads that handled the row

\* DeviceArrays (internal/internal_batch.hh:250-376)
VARIABLES
    bap,       \* the template parameters scalar_t and dim_
    ba,        \* the fields of the object and the two allocations
    bal        \* the last call of allocateBatchArrays and the object before it

cohVars == <<owner, node, inbox, outbox, failed, last>>
concVars == <<cat, lock, tpc>>
qrVars == <<qp, A, lastw, colog, tasks, st, mpc>>
bcVars == <<bp, bt, bpc, sent, net>>
prVars == <<pp, pm, ppc, pch, plog>>
hrVars == <<hp, hm, hpc, hch, hlog, hcj, hs, hl>>
setVars == <<sp, sm, spend, sst, sov, sev, swr>>
nuVars == <<nu>>
pbVars == <<pb>>
ttVars == <<tq, tl, trk, tC, tch, tlog>>
pvVars == <<vp, vmap, vpc>>
dkVars == <<kp, kA, kth, kst, krow>>
baVars == <<bap, ba, bal>>
vars == <<cohVars, concVars, qrVars, bcVars, prVars, hrVars, setVars, nuVars, pbVars, ttVars, pvVars, dkVars, baVars>>

\* The variables a part of the model leaves alone.
notCoh == <<concVars, qrVars, bcVars, prVars, hrVars, setVars, nuVars, pbVars, ttVars, pvVars, dkVars, baVars>>
notConc == <<cohVars, qrVars, bcVars, prVars, hrVars, setVars, nuVars, pbVars, ttVars, pvVars, dkVars, baVars>>
notQr == <<cohVars, concVars, bcVars, prVars, hrVars, setVars, nuVars, pbVars, ttVars, pvVars, dkVars, baVars>>
notBc == <<cohVars, concVars, qrVars, prVars, hrVars, setVars, nuVars, pbVars, ttVars, pvVars, dkVars, baVars>>
notPr == <<cohVars, concVars, qrVars, bcVars, hrVars, setVars, nuVars, pbVars, ttVars, pvVars, dkVars, baVars>>
notHr == <<cohVars, concVars, qrVars, bcVars, prVars, setVars, nuVars, pbVars, ttVars, pvVars, dkVars, baVars>>
notSet == <<cohVars, concVars, qrVars, bcVars, prVars, hrVars, nuVars, pbVars, ttVars, pvVars, dkVars, baVars>>
notNu == <<cohVars, concVars, qrVars, bcVars, prVars, hrVars, setVars, pbVars, ttVars, pvVars, dkVars, baVars>>
notPb == <<cohVars, concVars, qrVars, bcVars, prVars, hrVars, setVars, nuVars, ttVars, pvVars, dkVars, baVars>>
notTt == <<cohVars, concVars, qrVars, bcVars, prVars, hrVars, setVars, nuVars, pbVars, pvVars, dkVars, baVars>>
notPv == <<cohVars, concVars, qrVars, bcVars, prVars, hrVars, setVars, nuVars, pbVars, ttVars, dkVars, baVars>>
notDk == <<cohVars, concVars, qrVars, bcVars, prVars, hrVars, setVars, nuVars, pbVars, ttVars, pvVars, baVars>>
notBa == <<cohVars, concVars, qrVars, bcVars, prVars, hrVars, setVars, nuVars, pbVars, ttVars, pvVars, dkVars>>

QrIdle ==
    /\ qp = << >> /\ A = << >> /\ lastw = << >> /\ tasks = << >>
    /\ colog = << >>
    /\ st = << >> /\ mpc = << >>

CohIdle ==
    /\ owner = FALSE /\ node = << >> /\ inbox = << >> /\ outbox = << >>
    /\ failed = FALSE /\ last = << >>
ConcIdle == cat = << >> /\ lock = << >> /\ tpc = << >>
BcIdle ==
    /\ bp = << >> /\ bt = << >> /\ bpc = << >> /\ sent = << >>
    /\ net = {}
PrIdle ==
    /\ pp = << >> /\ pm = << >> /\ ppc = << >> /\ pch = << >>
    /\ plog = {}
HrIdle ==
    /\ hp = << >> /\ hm = << >> /\ hpc = << >> /\ hch = << >>
    /\ hlog = {} /\ hcj = {} /\ hs = << >> /\ hl = << >>
SetIdle ==
    /\ sp = << >> /\ sm = << >> /\ spend = << >> /\ sst = << >> /\ sov = << >>
    /\ sev = << >> /\ swr = << >>
NuIdle ==
    nu = << >>
PbIdle ==
    pb = << >>
TtIdle ==
    tq = << >> /\ tl = << >> /\ trk = << >> /\ tC = << >> /\ tch = << >> /\ tlog = << >>
PvIdle ==
    vp = << >> /\ vmap = << >> /\ vpc = << >>
DkIdle ==
    kp = << >> /\ kA = << >> /\ kth = << >> /\ kst = << >> /\ krow = << >>
BaIdle ==
    bap = << >> /\ ba = << >> /\ bal = << >>

\* ------------------------------------------------------------------------
\* Tile entry (catalog, section 4.3) and coherence engine (section 4.4)
\* ------------------------------------------------------------------------
\* The origin instance lives in the owner's host memory (insert_origin).
OriginLocs(own) == IF own THEN {HostNum} ELSE {}

EmptyEntry == [s |-> [l \in Locs |-> "Absent"], d |-> [l \in Locs |-> 0]]

\* insert_origin(i, j, tile): origin instance at Host in state Shared.
InsertOrigin(v) ==
    [s |-> [l \in Locs |-> IF l = HostNum THEN "Shared" ELSE "Absent"],
     d |-> [l \in Locs |-> IF l = HostNum THEN v ELSE 0]]

IsValid(e, l) == e.s[l] \in {"Shared", "OnHold", "Modified"}
ValidLocs(e) == {l \in Locs : IsValid(e, l)}
ModifiedLocs(e) == {l \in Locs : e.s[l] = "Modified"}

MinOf(S) == CHOOSE x \in S : \A y \in S : x <= y

\* Donor selection: same device (the location itself), then host, then
\* another device.
Donor(e, l) ==
    IF IsValid(e, l) THEN l
    ELSE IF IsValid(e, HostNum) THEN HostNum
    ELSE IF ValidLocs(e) = {} THEN l
    ELSE MinOf(ValidLocs(e))

\* Copy the donor's content to l; l becomes Shared; a Modified donor is
\* downgraded to Shared (both copies are now identical).
FetchNoDowngrade(e, l) ==
    LET src == Donor(e, l) IN
    [s |-> [e.s EXCEPT ![l] = "Shared"],
     d |-> [e.d EXCEPT ![l] = e.d[src]]]

Fetch(e, l) ==
    LET src == Donor(e, l) IN
    [s |-> [x \in Locs |->
               IF x = l THEN "Shared"
               ELSE IF x = src /\ e.s[x] = "Modified" THEN "Shared"
               ELSE e.s[x]],
     d |-> [e.d EXCEPT ![l] = e.d[src]]]

\* Invalidate every instance other than l; l becomes Modified.
InvalidateOthersKeep(e, l) ==
    [s |-> [e.s EXCEPT ![l] = "Modified"], d |-> e.d]

InvalidateOthers(e, l) ==
    [s |-> [x \in Locs |->
               IF x = l THEN "Modified"
               ELSE IF e.s[x] = "Absent" THEN "Absent"
               ELSE "Invalid"],
     d |-> e.d]

\* acquire(i, j, l, Read)
GetForReadingNoCopy(e, l) ==
    IF IsValid(e, l) THEN e ELSE [s |-> Fetch(e, l).s, d |-> e.d]

GetForReading(e, l) ==
    IF IsValid(e, l) THEN e ELSE Fetch(e, l)

\* acquire(i, j, l, Write): a Modified copy elsewhere is moved here;
\* otherwise the content at l is not preserved (the buffer is left as is).
GetForWritingNoMove(e, l) ==
    InvalidateOthers(e, l)

GetForWriting(e, l) ==
    LET m == ModifiedLocs(e) \ {l} IN
    IF m # {} /\ ~IsValid(e, l)
    THEN InvalidateOthers(Fetch(e, l), l)
    ELSE InvalidateOthers(e, l)

\* acquire(i, j, l, ReadWrite): as Write, but the content is preserved.
GetForReadWrite(e, l) ==
    InvalidateOthers(GetForReading(e, l), l)

TileGet(e, l, m) ==
    CASE m = "Read" -> GetForReading(e, l)
      [] m = "Write" -> GetForWriting(e, l)
      [] m = "ReadWrite" -> GetForReadWrite(e, l)

\* An acquire needs a donor unless the instance is valid already or the
\* mode is Write with nothing to move.
CanGet(e, l, m) ==
    \/ ValidLocs(e) # {}
    \/ m = "Write" /\ \E x \in Locs : e.s[x] # "Absent"

\* tileUpdateOrigin(i, j): the origin instance is forced back to Modified,
\* pulling the live copy from wherever it is.
UpdateOriginShared(e) ==
    GetForReading(e, HostNum)

UpdateOrigin(e) ==
    GetForReadWrite(e, HostNum)

\* releaseLocalWorkspaceTile(i, j): every non-origin Shared instance becomes
\* Invalid.  o is the set of origin locations of the entry.
ReleaseLocalAll(e, o) ==
    [s |-> [x \in Locs |-> IF e.s[x] = "Shared" THEN "Invalid" ELSE e.s[x]],
     d |-> e.d]

ReleaseLocal(e, o) ==
    [s |-> [x \in Locs |->
               IF x \notin o /\ e.s[x] = "Shared" THEN "Invalid" ELSE e.s[x]],
     d |-> e.d]

\* The cleanup task of geqrf on a local tile of column k:
\* tileUpdateOrigin(i, k), then releaseLocalWorkspaceTile(i, k).
CleanupLocalNoUpdate(e) ==
    ReleaseLocal(e, {HostNum})

CleanupLocal(e) ==
    ReleaseLocal(UpdateOrigin(e), {HostNum})

\* releaseRemoteWorkspaceTile(i, j): the received instance and the copies
\* made of it are discarded; a pinned (OnHold) instance stays.
ReleaseRemote(e) ==
    [s |-> [x \in Locs |-> IF e.s[x] = "OnHold" THEN "OnHold" ELSE "Absent"],
     d |-> [x \in Locs |-> IF e.s[x] = "OnHold" THEN e.d[x] ELSE 0]]

\* Completion of recv(i, j, Host, src, ...): the host instance is created or
\* reused, holds the received content and is Shared; the copies of the old
\* content at the other locations are invalidated.
RecvTileModified(e, v) ==
    [s |-> [x \in Locs |->
               IF x = HostNum THEN "Modified"
               ELSE IF e.s[x] = "Absent" THEN "Absent" ELSE "Invalid"],
     d |-> [e.d EXCEPT ![HostNum] = v]]

RecvTile(e, v) ==
    [s |-> [x \in Locs |->
               IF x = HostNum THEN "Shared"
               ELSE IF e.s[x] = "Absent" THEN "Absent" ELSE "Invalid"],
     d |-> [e.d EXCEPT ![HostNum] = v]]

\* send(tile, dst, tag): legal when the host instance is Modified or Shared.
CanSend(e) == e.s[HostNum] \in {"Modified", "Shared"}

\* ------------------------------------------------------------------------
\* Coherence operations of one process on one tile (i,j).  The peer process
\* is the environment: it sends contents of (i,j) and receives what is sent.
\* ------------------------------------------------------------------------
Op(o, l, m) == [op |-> o, l |-> l, m |-> m]

Init ==
    /\ owner \in BOOLEAN
    /\ node = IF owner THEN InsertOrigin(0) ELSE EmptyEntry
    /\ inbox = << >>
    /\ outbox = << >>
    /\ failed = FALSE
    /\ last = Op("init", HostNum, "Read")
    /\ ConcIdle /\ QrIdle /\ BcIdle /\ PrIdle /\ HrIdle /\ SetIdle /\ NuIdle /\ PbIdle /\ TtIdle /\ PvIdle /\ DkIdle /\ BaIdle

Acquire(l, m) ==
    /\ ~failed
    /\ CanGet(node, l, m)
    /\ node' = TileGet(node, l, m)
    /\ last' = Op("acquire", l, m)
    /\ UNCHANGED <<owner, inbox, outbox, failed>>
    /\ UNCHANGED notCoh

\* A task that acquired the tile for writing overwrites its content.
KernelWrite(l, v) ==
    /\ ~failed
    /\ node.s[l] = "Modified"
    /\ node' = [node EXCEPT !.d[l] = v]
    /\ last' = Op("write", l, "Write")
    /\ UNCHANGED <<owner, inbox, outbox, failed>>
    /\ UNCHANGED notCoh

\* Pin a valid copy against eviction, and release the pin.
Hold(l) ==
    /\ ~failed
    /\ node.s[l] = "Shared"
    /\ node' = [node EXCEPT !.s[l] = "OnHold"]
    /\ last' = Op("hold", l, "Read")
    /\ UNCHANGED <<owner, inbox, outbox, failed>>
    /\ UNCHANGED notCoh

Unhold(l) ==
    /\ ~failed
    /\ node.s[l] = "OnHold"
    /\ node' = [node EXCEPT !.s[l] = "Shared"]
    /\ last' = Op("unhold", l, "Read")
    /\ UNCHANGED <<owner, inbox, outbox, failed>>
    /\ UNCHANGED notCoh

TileUpdateOrigin ==
    /\ ~failed
    /\ owner
    /\ ValidLocs(node) # {}
    /\ node' = UpdateOrigin(node)
    /\ last' = Op("updateOrigin", HostNum, "ReadWrite")
    /\ UNCHANGED <<owner, inbox, outbox, failed>>
    /\ UNCHANGED notCoh

ReleaseLocalWorkspaceTile ==
    /\ ~failed
    /\ owner
    /\ node' = ReleaseLocal(node, OriginLocs(owner))
    /\ last' = Op("releaseLocal", HostNum, "Read")
    /\ UNCHANGED <<owner, inbox, outbox, failed>>
    /\ UNCHANGED notCoh

\* geqrf's cleanup of a local tile (the non-local branch is
\* ReleaseRemoteWorkspaceTile).
CleanupColumnTile ==
    /\ ~failed
    /\ owner
    /\ ValidLocs(node) # {}
    /\ node' = CleanupLocal(node)
    /\ last' = Op("cleanup", HostNum, "ReadWrite")
    /\ UNCHANGED <<owner, inbox, outbox, failed>>
    /\ UNCHANGED notCoh

ReleaseRemoteWorkspaceTile ==
    /\ ~failed
    /\ ~owner
    /\ node' = ReleaseRemote(node)
    /\ last' = Op("releaseRemote", HostNum, "Read")
    /\ UNCHANGED <<owner, inbox, outbox, failed>>
    /\ UNCHANGED notCoh

TileSend ==
    /\ ~failed
    /\ CanSend(node)
    /\ Len(outbox) < MaxInFlight
    /\ outbox' = Append(outbox, node.d[HostNum])
    /\ last' = Op("send", HostNum, "Read")
    /\ UNCHANGED <<owner, node, inbox, failed>>
    /\ UNCHANGED notCoh

\* A send of an instance that is neither Modified nor Shared is an
\* InternalInvariantViolation.
TileSendFatal ==
    /\ ~failed
    /\ node.s[HostNum] # "Absent"
    /\ ~CanSend(node)
    /\ failed' = TRUE
    /\ last' = Op("sendFatal", HostNum, "Read")
    /\ UNCHANGED <<owner, node, inbox, outbox>>
    /\ UNCHANGED notCoh

TileRecv ==
    /\ ~failed
    /\ inbox # << >>
    /\ node' = RecvTile(node, Head(inbox))
    /\ inbox' = Tail(inbox)
    /\ last' = Op("recv", HostNum, "Write")
    /\ UNCHANGED <<owner, outbox, failed>>
    /\ UNCHANGED notCoh

\* The peer sends a content of (i,j) to this process.
PeerSend(v) ==
    /\ ~failed
    /\ Len(inbox) < MaxInFlight
    /\ inbox' = Append(inbox, v)
    /\ last' = Op("peerSend", HostNum, "Read")
    /\ UNCHANGED <<owner, node, outbox, failed>>
    /\ UNCHANGED notCoh

\* The peer receives what this process sent.
PeerRecv ==
    /\ ~failed
    /\ outbox # << >>
    /\ outbox' = Tail(outbox)
    /\ last' = Op("peerRecv", HostNum, "Read")
    /\ UNCHANGED <<owner, node, inbox, failed>>
    /\ UNCHANGED notCoh

Next ==
    \/ \E l \in Locs, m \in Modes : Acquire(l, m)
    \/ \E l \in Locs, v \in Val : KernelWrite(l, v)
    \/ \E l \in Locs : Hold(l)
    \/ \E l \in Locs : Unhold(l)
    \/ TileUpdateOrigin
    \/ ReleaseLocalWorkspaceTile
    \/ CleanupColumnTile
    \/ ReleaseRemoteWorkspaceTile
    \/ TileSend
    \/ TileSendFatal
    \/ TileRecv
    \/ \E v \in Val : PeerSend(v)
    \/ PeerRecv

Spec == Init /\ [][Next]_vars

\* ------------------------------------------------------------------------
\* Coherence invariants (section 3)
\* ------------------------------------------------------------------------
Instances(e) == {l \in Locs : e.s[l] # "Absent"}

AtMostOneModified(e) == Cardinality(ModifiedLocs(e)) <= 1

\* If an instance is Modified, every other instance is Invalid or OnHold.
ModifiedExcludes(e) ==
    \A l \in ModifiedLocs(e) :
        \A x \in Instances(e) \ {l} : e.s[x] \in {"Invalid", "OnHold"}

SameContent(e, S) == \A x \in S, y \in S : e.d[x] = e.d[y]

\* As written: with no Modified instance, every non-Invalid instance is
\* Shared, and they are identical.
SharedOnly(e) ==
    ModifiedLocs(e) = {} =>
        /\ \A x \in Instances(e) : e.s[x] # "Invalid" => e.s[x] = "Shared"
        /\ SameContent(e, {x \in Instances(e) : e.s[x] # "Invalid"})

\* With a pinned copy counted as the valid copy it is.
SharedOrHeld(e) ==
    ModifiedLocs(e) = {} =>
        /\ \A x \in Instances(e) :
              e.s[x] # "Invalid" => e.s[x] \in {"Shared", "OnHold"}
        /\ SameContent(e, {x \in Instances(e) : e.s[x] # "Invalid"})

CoherentAsWritten(e) ==
    AtMostOneModified(e) /\ ModifiedExcludes(e) /\ SharedOnly(e)

Coherent(e) ==
    AtMostOneModified(e) /\ ModifiedExcludes(e) /\ SharedOrHeld(e)

TypeOK ==
    /\ owner \in BOOLEAN
    /\ node.s \in [Locs -> InstState]
    /\ node.d \in [Locs -> Val]
    /\ failed \in BOOLEAN

\* C1: in every state reachable by coherence operations (acquire in any
\* mode at any location, tileUpdateOrigin, releaseLocalWorkspaceTile,
\* releaseRemoteWorkspaceTile, send, recv) at most one instance of the tile
\* is Modified.
C1_AtMostOneModified == AtMostOneModified(node)

\* A Modified device instance next to an invalidated host instance, right
\* after an acquire for writing.
C1_Witness ==
    /\ last.op = "acquire" /\ last.m \in {"Write", "ReadWrite"}
    /\ last.l \in Devs
    /\ node.s[last.l] = "Modified"
    /\ node.s[HostNum] = "Invalid"

\* C2 (as written): if some instance is Modified every other one is Invalid
\* or OnHold; if none is Modified every non-Invalid instance is Shared and
\* all of them hold identical content.
C2_AsWritten == ModifiedExcludes(node) /\ SharedOnly(node)

\* C2 (amended): if some instance is Modified every other one is Invalid or
\* OnHold; if none is Modified every non-Invalid instance is Shared or
\* OnHold and all of them hold identical content.
C2_Coherent == ModifiedExcludes(node) /\ SharedOrHeld(node)

\* A pinned host copy next to a Shared device copy, no instance Modified.
C2_Witness ==
    /\ ModifiedLocs(node) = {}
    /\ node.s[HostNum] = "OnHold"
    /\ \E l \in Devs : node.s[l] = "Shared"

\* What an acquire for writing must leave behind.
WritePost(e, f, l, m) ==
    /\ f.s[l] = "Modified"
    /\ \A x \in Instances(f) \ {l} : f.s[x] = "Invalid"
    /\ Instances(f) = Instances(e) \cup {l}
    /\ \A y \in ModifiedLocs(e) \ {l} : f.d[l] = e.d[y] /\ f.s[y] = "Invalid"
    /\ m = "ReadWrite" => \A y \in ValidLocs(e) : f.d[l] = e.d[y]

\* C3: acquire(i,j,l,Write) and acquire(i,j,l,ReadWrite), from any start
\* state, end with the instance at l Modified and every other instance
\* invalidated; a Modified copy at another location is moved to l (its
\* content copied, the source invalidated), and with ReadWrite the content
\* at l is the latest valid content of the tile before the call.
C3_WriteAcquire ==
    [][(last'.op = "acquire" /\ last'.m \in {"Write", "ReadWrite"})
          => WritePost(node, node', last'.l, last'.m)]_vars

\* After a move: the device holds the non-zero content just written on the
\* host, which is now Invalid.
C3_Witness ==
    /\ last.op = "acquire" /\ last.m = "Write" /\ last.l \in Devs
    /\ node.s[last.l] = "Modified"
    /\ node.s[HostNum] = "Invalid"
    /\ node.d[HostNum] # 0
    /\ node.d[last.l] = node.d[HostNum]

\* What an acquire for reading does.
ReadPost(e, f, l) ==
    IF IsValid(e, l)
    THEN f = e
    ELSE /\ f.s[l] = "Shared"
         /\ \E y \in ValidLocs(e) : f.d[l] = e.d[y]
         /\ \A x \in Locs \ {l} : f.d[x] = e.d[x]

\* C4 (as written): acquire(i,j,l,Read) on an Invalid instance copies the
\* content of a donor that is Modified, Shared or OnHold, leaves l Shared
\* with the donor's content, and the coherence invariants (as written in
\* C1, C2) hold afterwards; on an instance that is Shared, OnHold or
\* Modified already it changes no state and copies nothing.
C4_AsWritten ==
    [][(last'.op = "acquire" /\ last'.m = "Read")
          => /\ ReadPost(node, node', last'.l)
             /\ ~IsValid(node, last'.l) => CoherentAsWritten(node')]_vars

\* C4 (amended): the same, the invariants being those of C1 and of C2 as
\* amended (a pinned OnHold copy counts as a valid copy).
C4_ReadAcquire ==
    [][(last'.op = "acquire" /\ last'.m = "Read")
          => /\ ReadPost(node, node', last'.l)
             /\ ~IsValid(node, last'.l) => Coherent(node')]_vars

\* A device copy fetched from the host after the host content was written.
C4_Witness ==
    /\ last.op = "acquire" /\ last.m = "Read" /\ last.l \in Devs
    /\ node.s[last.l] = "Shared"
    /\ node.s[HostNum] \in {"Shared", "OnHold"}
    /\ node.d[last.l] # 0
    /\ node.d[last.l] = node.d[HostNum]

\* C8: a receive creates or reuses the (workspace) host instance at the
\* receiver and completes with it Shared, holding the received content; a
\* send changes the state of no instance at the sender (nor its content).
C8_SendRecv ==
    [][/\ last'.op = "recv" =>
            /\ node'.s[HostNum] = "Shared"
            /\ node'.d[HostNum] = Head(inbox)
            /\ Instances(node') = Instances(node) \cup {HostNum}
       /\ last'.op = "send" =>
            /\ node' = node
            /\ outbox' = Append(outbox, node.d[HostNum])]_vars

\* A process that does not own the tile holds it Shared in a workspace
\* instance after a receive.
C8_Witness ==
    /\ ~owner
    /\ last.op = "recv"
    /\ node.s[HostNum] = "Shared"
    /\ node.d[HostNum] # 0

\* C7: releaseLocalWorkspaceTile(i,j) downgrades every non-origin Shared
\* instance to Invalid and leaves the origin instance's state and content
\* (and every other instance) unchanged; no operation removes an origin
\* instance; and after geqrf's cleanup of a local tile (tileUpdateOrigin,
\* then releaseLocalWorkspaceTile) the tile has a valid origin instance.
C7_ReleaseKeepsOrigin ==
    [][/\ last'.op = "releaseLocal" =>
            /\ \A x \in Locs \ {HostNum} :
                  node'.s[x] = IF node.s[x] = "Shared" THEN "Invalid"
                               ELSE node.s[x]
            /\ node'.s[HostNum] = node.s[HostNum]
            /\ node'.d = node.d
       /\ (owner /\ node.s[HostNum] # "Absent") => node'.s[HostNum] # "Absent"
       /\ last'.op = "cleanup" => IsValid(node', HostNum)]_vars

\* After the cleanup the origin holds the content that was live on a
\* device, and the device copy is no longer valid.
C7_Witness ==
    /\ owner
    /\ last.op = "cleanup"
    /\ node.s[HostNum] = "Modified"
    /\ node.d[HostNum] # 0
    /\ \E l \in Devs : node.s[l] = "Invalid" /\ node.d[l] = node.d[HostNum]

\* ------------------------------------------------------------------------
\* Concurrent acquires: each tile entry has its own lock, held for the
\* duration of one state transition (sections 4.3, 5).  A thread asks for a
\* tile, takes the tile's lock, performs the transition, releases the lock
\* and then uses the tile until its task completes.
\* ------------------------------------------------------------------------
Threads == 1 .. NumThreads
Tiles == {<<0, 0>>, <<1, 0>>}
Idle == [pc |-> "idle", x |-> <<0, 0>>, m |-> "Read"]

ConcInit ==
    /\ cat = [x \in Tiles |-> InsertOrigin(0)]
    /\ lock = [x \in Tiles |-> 0]
    /\ tpc = [t \in Threads |-> Idle]
    /\ CohIdle /\ QrIdle /\ BcIdle /\ PrIdle /\ HrIdle /\ SetIdle /\ NuIdle /\ PbIdle /\ TtIdle /\ PvIdle /\ DkIdle /\ BaIdle

\* The lock of tile x after thread t took it / gave it back.
LockTaken(lk, x, t) == [lk EXCEPT ![x] = t]

LockKept(lk, x) == lk

LockReleased(lk, x) == [lk EXCEPT ![x] = 0]

\* A task starts an acquire of tile x.
Request(t, x) ==
    /\ tpc[t].pc = "idle"
    /\ tpc' = [tpc EXCEPT ![t] = [pc |-> "wait", x |-> x, m |-> "Read"]]
    /\ UNCHANGED <<cat, lock>>
    /\ UNCHANGED notConc

\* LockGuard on the tile entry.
LockTile(t) ==
    /\ tpc[t].pc = "wait"
    /\ lock[tpc[t].x] = 0
    /\ lock' = LockTaken(lock, tpc[t].x, t)
    /\ tpc' = [tpc EXCEPT ![t].pc = "locked"]
    /\ UNCHANGED cat
    /\ UNCHANGED notConc

\* The state transition of acquire(x, l, m), under the lock.
GetLocked(t, l, m) ==
    /\ tpc[t].pc = "locked"
    /\ CanGet(cat[tpc[t].x], l, m)
    /\ cat' = [cat EXCEPT ![tpc[t].x] = TileGet(@, l, m)]
    /\ tpc' = [tpc EXCEPT ![t].pc = "got", ![t].m = m]
    /\ UNCHANGED lock
    /\ UNCHANGED notConc

\* The acquire returns: the lock is released, the tile is granted.
Unlock(t) ==
    /\ tpc[t].pc = "got"
    /\ lock' = LockReleased(lock, tpc[t].x)
    /\ tpc' = [tpc EXCEPT ![t].pc = "granted"]
    /\ UNCHANGED cat
    /\ UNCHANGED notConc

\* The task that acquired the tile completes.
TaskDone(t) ==
    /\ tpc[t].pc = "granted"
    /\ tpc' = [tpc EXCEPT ![t] = Idle]
    /\ UNCHANGED <<cat, lock>>
    /\ UNCHANGED notConc

ConcNext ==
    \/ \E t \in Threads, x \in Tiles : Request(t, x)
    \/ \E t \in Threads : LockTile(t)
    \/ \E t \in Threads, l \in Locs, m \in Modes : GetLocked(t, l, m)
    \/ \E t \in Threads : Unlock(t)
    \/ \E t \in Threads : TaskDone(t)

SpecConc == ConcInit /\ [][ConcNext]_vars

\* A thread inside an acquire can take its next step, or waits for a lock
\* whose holder can take its next step.
CanProceed(t) ==
    CASE tpc[t].pc = "wait" ->
            \/ lock[tpc[t].x] = 0 /\ ENABLED LockTile(t)
            \/ /\ lock[tpc[t].x] \in Threads \ {t}
               /\ tpc[lock[tpc[t].x]].pc \in {"locked", "got"}
               /\ tpc[lock[tpc[t].x]].x = tpc[t].x
      [] tpc[t].pc = "locked" ->
            \E l \in Locs, m \in Modes : ENABLED GetLocked(t, l, m)
      [] tpc[t].pc = "got" -> ENABLED Unlock(t)
      [] OTHER -> TRUE

\* A lock is held exactly by a thread inside a transition on that tile.
LockDiscipline ==
    \A x \in Tiles :
        /\ lock[x] \in Threads =>
              tpc[lock[x]].pc \in {"locked", "got"} /\ tpc[lock[x]].x = x
        /\ \A t \in Threads :
              tpc[t].pc \in {"locked", "got"} /\ tpc[t].x = x => lock[x] = t

MaxMt == 3
MaxNt == 4
MaxLookahead == 1
MaxGrid == 2

Targets == {"HostTask", "Devices"}

Calls ==
    {c \in [mt : 1..MaxMt, nt : 1..MaxNt, la : 0..MaxLookahead,
            target : Targets, p : 1..MaxGrid, q : 1..MaxGrid,
            myr : 0..(MaxGrid - 1), myc : 0..(MaxGrid - 1)] :
        c.myr < c.p /\ c.myc < c.q}

TilesOf(c) == (0..(c.mt - 1)) \X (0..(c.nt - 1))

\* Tile (i,j) is owned by process (i mod p, j mod q).
IsLocalIn(c, i, j) == i % c.p = c.myr /\ j % c.q = c.myc
tileIsLocal(i, j) == IsLocalIn(qp, i, j)

\* The device a local tile is assigned to.
tileDevice(i, j) == (j \div qp.q) % NumDev

\* Where unmqr<target> updates tile (i,j).
UpdateLoc(i, j) == IF qp.target = "Devices" THEN tileDevice(i, j) ELSE HostNum

A_min_mtnt == IF qp.mt < qp.nt THEN qp.mt ELSE qp.nt

\* Each rank's first (top-most) row in the panel A(k:mt-1, k).
FirstIndices(k) ==
    {i \in k..(qp.mt - 1) : \A h \in k..(i - 1) : h % qp.p # i % qp.p}

\* This process is in the set A.sub(i, i, k+1, nt-1) that A(i,k) is
\* broadcast to.
InBcastSet(i, k) == \E j \in (k + 1)..(qp.nt - 1) : tileIsLocal(i, j)

\* The priority clause of a task's pragma; a task without the clause has
\* the default priority 0.
PriorityAllOne(kind) == 1

Priority(kind) == IF kind \in {"panel", "look"} THEN 1 ELSE 0

\* The number of queues geqrf allocates per device.
num_queues_2 == 2 + qp.la

num_queues == 3 + qp.la

\* The queue index an update task of step k starting at column j passes
\* to internal::unmqr.
queue_jk1(k, j) == j - k + 1

Task(kind, k, j) ==
    [kind |-> kind, k |-> k, j |-> j, prio |-> Priority(kind),
     queue |-> IF kind \in {"look", "trail"} THEN queue_jk1(k, j) ELSE 0]

\* The depend() clauses of a task.
DepsNoIn(t) ==
    CASE t.kind = "panel" -> {<<t.k, "inout">>}
      [] t.kind = "look" -> {<<t.j, "inout">>}
      [] t.kind = "trail" -> {<<t.k, "in">>, <<t.k + 1 + qp.la, "inout">>,
                              <<qp.nt - 1, "inout">>}
      [] t.kind = "clean" -> {<<t.k, "inout">>}

DepsNoColumn(t) ==
    CASE t.kind = "panel" -> {<<t.k, "inout">>}
      [] t.kind = "look" -> {<<t.k, "in">>}
      [] t.kind = "trail" -> {<<t.k, "in">>, <<t.k + 1 + qp.la, "inout">>,
                              <<qp.nt - 1, "inout">>}
      [] t.kind = "clean" -> {<<t.k, "inout">>}

DepsNoLast(t) ==
    CASE t.kind = "panel" -> {<<t.k, "inout">>}
      [] t.kind = "look" -> {<<t.k, "in">>, <<t.j, "inout">>}
      [] t.kind = "trail" -> {<<t.k, "in">>, <<t.k + 1 + qp.la, "inout">>}
      [] t.kind = "clean" -> {<<t.k, "inout">>}

DepsTrailNext(t) ==
    CASE t.kind = "panel" -> {<<t.k, "inout">>}
      [] t.kind = "look" -> {<<t.k, "in">>, <<t.j, "inout">>}
      [] t.kind = "trail" -> {<<t.k, "in">>, <<t.k + 1, "inout">>,
                              <<qp.nt - 1, "inout">>}
      [] t.kind = "clean" -> {<<t.k, "inout">>}

DepsCleanIn(t) ==
    CASE t.kind = "panel" -> {<<t.k, "inout">>}
      [] t.kind = "look" -> {<<t.k, "in">>, <<t.j, "inout">>}
      [] t.kind = "trail" -> {<<t.k, "in">>, <<t.k + 1 + qp.la, "inout">>,
                              <<qp.nt - 1, "inout">>}
      [] t.kind = "clean" -> {<<t.k, "in">>}

Deps(t) ==
    CASE t.kind = "panel" -> {<<t.k, "inout">>}
      [] t.kind = "look" -> {<<t.k, "in">>, <<t.j, "inout">>}
      [] t.kind = "trail" -> {<<t.k, "in">>, <<t.k + 1 + qp.la, "inout">>,
                              <<qp.nt - 1, "inout">>}
      [] t.kind = "clean" -> {<<t.k, "inout">>}

\* OpenMP: a task depends on an earlier sibling when both name the same
\* list item and at least one of them names it out or inout.
Conflict(t, u) ==
    \E d \in Deps(t) : \E e \in Deps(u) :
        d[1] = e[1] /\ (d[2] = "inout" \/ e[2] = "inout")

Ready(n) ==
    \A m \in 1..(n - 1) : Conflict(tasks[m], tasks[n]) => st[m] = "done"

\* The block-columns of A a task's body writes (or releases) and reads.
Writes(t) ==
    CASE t.kind = "panel" -> {t.k}
      [] t.kind = "look" -> {t.j}
      [] t.kind = "trail" -> t.j..(qp.nt - 1)
      [] t.kind = "clean" -> {t.k}

Reads(t) == IF t.kind \in {"look", "trail"} THEN {t.k} ELSE {}

Touches(t) == Reads(t) \cup Writes(t)

\* --- what a task's body does to A's catalog ---
Written(e, l, v) == [s |-> e.s, d |-> [e.d EXCEPT ![l] = v]]

RECURSIVE GetForReadingAll(_, _)
GetForReadingAll(e, L) ==
    IF L = {} \/ ValidLocs(e) = {} THEN e
    ELSE LET l == MinOf(L) IN GetForReadingAll(GetForReading(e, l), L \ {l})

\* Panel of step k: internal::geqrf and ttqrt leave the factored tiles
\* A(k:mt-1, k) modified on the host; listBcast then delivers A(i,k) to the
\* owners of A(i, k+1:nt-1).  Step k writes content k+1.
PanelTile(e, i, k) ==
    IF tileIsLocal(i, k)
    THEN Written(GetForReadWrite(e, HostNum), HostNum, k + 1)
    ELSE IF k < qp.nt - 1 /\ InBcastSet(i, k) THEN RecvTile(e, k + 1)
    ELSE e

PanelEffect(a, k) ==
    [t \in DOMAIN a |->
        IF t[2] = k /\ t[1] >= k THEN PanelTile(a[t], t[1], k) ELSE a[t]]

\* unmqr<target> updates C = A(i,j) where the target computes; ttmqr
\* <HostTask> then takes each rank's first row of the column for writing on
\* the host when the reduction tree has more than one rank.
UpdateTile(e, i, j, k) ==
    LET l == UpdateLoc(i, j)
        e1 == Written(GetForReadWrite(e, l), l, k + 1)
    IN  IF i \in FirstIndices(k) /\ Cardinality(FirstIndices(k)) > 1
        THEN GetForWriting(e1, HostNum)
        ELSE e1

\* The update of columns j1..j2 with the reflectors of step k reads the
\* panel tile A(i,k) wherever a local tile of row i is updated.
UpdateEffect(a, k, j1, j2) ==
    [t \in DOMAIN a |->
        LET i == t[1]
            j == t[2]
        IN  IF i >= k /\ j \in j1..j2 /\ tileIsLocal(i, j)
            THEN UpdateTile(a[t], i, j, k)
            ELSE IF i >= k /\ j = k
            THEN GetForReadingAll(a[t],
                    {UpdateLoc(i, c) : c \in {c \in j1..j2 : tileIsLocal(i, c)}})
            ELSE a[t]]

\* Cleanup of step k releases the whole column k.
CleanupEffect(a, k) ==
    [t \in DOMAIN a |->
        IF t[2] # k THEN a[t]
        ELSE IF tileIsLocal(t[1], k) THEN CleanupLocal(a[t])
        ELSE ReleaseRemote(a[t])]

Effect(a, t) ==
    CASE t.kind = "panel" -> PanelEffect(a, t.k)
      [] t.kind = "look" -> UpdateEffect(a, t.k, t.j, t.j)
      [] t.kind = "trail" -> UpdateEffect(a, t.k, t.j, qp.nt - 1)
      [] t.kind = "clean" -> CleanupEffect(a, t.k)

\* The local tiles a task writes new content to.
WrittenTiles(t) ==
    {x \in DOMAIN A :
        /\ tileIsLocal(x[1], x[2])
        /\ x[1] >= t.k
        /\ t.kind # "clean"
        /\ x[2] \in Writes(t)}

\* The block-columns a task applies an operation to (a factorization or an
\* update; the cleanup only releases), and the operation.
Applied(t) == IF t.kind = "clean" THEN {} ELSE Writes(t)

OpOf(t) == <<IF t.kind = "panel" THEN "panel" ELSE "update", t.k>>

\* tileUpdateAllOrigin() walks the local tiles; releaseWorkspace() drops
\* every workspace (non-origin) instance.
UpdateAllOrigin(a) ==
    [t \in DOMAIN a |->
        IF tileIsLocal(t[1], t[2]) THEN UpdateOrigin(a[t]) ELSE a[t]]

ReleaseWorkspace(a) ==
    [t \in DOMAIN a |->
        [s |-> [x \in Locs |->
                   IF x = HostNum /\ tileIsLocal(t[1], t[2]) THEN a[t].s[x]
                   ELSE "Absent"],
         d |-> [x \in Locs |->
                   IF x = HostNum /\ tileIsLocal(t[1], t[2]) THEN a[t].d[x]
                   ELSE 0]]]

\* --- the master thread and the tasks ---
QrInit ==
    /\ qp \in Calls
    /\ A = [t \in TilesOf(qp) |->
               IF IsLocalIn(qp, t[1], t[2]) THEN InsertOrigin(0)
               ELSE EmptyEntry]
    /\ lastw = [t \in TilesOf(qp) |-> 0]
    /\ colog = [j \in 0..(qp.nt - 1) |-> << >>]
    /\ tasks = << >>
    /\ st = << >>
    /\ mpc = [ph |-> "panel", k |-> 0, j |-> 0]
    /\ CohIdle /\ ConcIdle /\ BcIdle /\ PrIdle /\ HrIdle /\ SetIdle /\ NuIdle /\ PbIdle /\ TtIdle /\ PvIdle /\ DkIdle /\ BaIdle

Submit(t) ==
    /\ tasks' = Append(tasks, t)
    /\ st' = Append(st, "waiting")

\* #pragma omp task depend(inout:block[k]) priority(1)
MasterPanel ==
    /\ mpc.ph = "panel"
    /\ Submit(Task("panel", mpc.k, mpc.k))
    /\ mpc' = [ph |-> "look", k |-> mpc.k, j |-> mpc.k + 1]
    /\ UNCHANGED <<qp, A, lastw, colog>>
    /\ UNCHANGED notQr

\* for (j = k+1; j < k+1+lookahead && j < A_nt; ++j)
MasterLook ==
    /\ mpc.ph = "look"
    /\ mpc.j < mpc.k + 1 + qp.la /\ mpc.j < qp.nt
    /\ Submit(Task("look", mpc.k, mpc.j))
    /\ mpc' = [mpc EXCEPT !.j = mpc.j + 1]
    /\ UNCHANGED <<qp, A, lastw, colog>>
    /\ UNCHANGED notQr

\* if (k+1+lookahead < A_nt): the trailing task
MasterTrail ==
    /\ mpc.ph = "look"
    /\ ~(mpc.j < mpc.k + 1 + qp.la /\ mpc.j < qp.nt)
    /\ IF mpc.k + 1 + qp.la < qp.nt
       THEN Submit(Task("trail", mpc.k, mpc.k + 1 + qp.la))
       ELSE UNCHANGED <<tasks, st>>
    /\ mpc' = [mpc EXCEPT !.ph = "clean"]
    /\ UNCHANGED <<qp, A, lastw, colog>>
    /\ UNCHANGED notQr

\* the cleanup task, then the next k
MasterClean ==
    /\ mpc.ph = "clean"
    /\ Submit(Task("clean", mpc.k, mpc.k))
    /\ mpc' = IF mpc.k + 1 < A_min_mtnt
              THEN [ph |-> "panel", k |-> mpc.k + 1, j |-> 0]
              ELSE [ph |-> "taskwait", k |-> mpc.k + 1, j |-> 0]
    /\ UNCHANGED <<qp, A, lastw, colog>>
    /\ UNCHANGED notQr

\* #pragma omp taskwait
TaskwaitSkipped == TRUE

TaskwaitDone == \A n \in DOMAIN tasks : st[n] = "done"

MasterTaskwait ==
    /\ mpc.ph = "taskwait"
    /\ TaskwaitDone
    /\ mpc' = [mpc EXCEPT !.ph = "updateAll"]
    /\ UNCHANGED <<qp, A, lastw, colog, tasks, st>>
    /\ UNCHANGED notQr

\* A.tileUpdateAllOrigin()
MasterUpdateAll ==
    /\ mpc.ph = "updateAll"
    /\ A' = UpdateAllOrigin(A)
    /\ mpc' = [mpc EXCEPT !.ph = "release"]
    /\ UNCHANGED <<qp, lastw, colog, tasks, st>>
    /\ UNCHANGED notQr

\* A.releaseWorkspace(), and geqrf returns
MasterRelease ==
    /\ mpc.ph = "release"
    /\ A' = ReleaseWorkspace(A)
    /\ mpc' = [mpc EXCEPT !.ph = "returned"]
    /\ UNCHANGED <<qp, lastw, colog, tasks, st>>
    /\ UNCHANGED notQr

\* A thread of the team starts a task whose dependences are satisfied.
TaskStart(n) ==
    /\ st[n] = "waiting"
    /\ Ready(n)
    /\ st' = [st EXCEPT ![n] = "running"]
    /\ UNCHANGED <<qp, A, lastw, colog, tasks, mpc>>
    /\ UNCHANGED notQr

TaskFinish(n) ==
    /\ st[n] = "running"
    /\ A' = Effect(A, tasks[n])
    /\ lastw' = [x \in DOMAIN lastw |->
                    IF x \in WrittenTiles(tasks[n]) THEN tasks[n].k + 1
                    ELSE lastw[x]]
    /\ colog' = [j \in DOMAIN colog |->
                    IF j \in Applied(tasks[n])
                    THEN Append(colog[j], OpOf(tasks[n]))
                    ELSE colog[j]]
    /\ st' = [st EXCEPT ![n] = "done"]
    /\ UNCHANGED <<qp, tasks, mpc>>
    /\ UNCHANGED notQr

QrNext ==
    \/ MasterPanel
    \/ MasterLook
    \/ MasterTrail
    \/ MasterClean
    \/ MasterTaskwait
    \/ MasterUpdateAll
    \/ MasterRelease
    \/ \E n \in DOMAIN tasks : TaskStart(n)
    \/ \E n \in DOMAIN tasks : TaskFinish(n)

SpecQR == QrInit /\ [][QrNext]_vars

QrTypeOK ==
    /\ qp \in Calls
    /\ DOMAIN A = TilesOf(qp)
    /\ \A t \in DOMAIN A : A[t].s \in [Locs -> InstState]
    /\ DOMAIN st = DOMAIN tasks
    /\ \A n \in DOMAIN st : st[n] \in {"waiting", "running", "done"}

\* Every local tile keeps a coherent entry with a valid instance.
QrCoherent ==
    \A t \in DOMAIN A :
        /\ Coherent(A[t])
        /\ tileIsLocal(t[1], t[2]) => ValidLocs(A[t]) # {}

\* An update task finds the panel tiles it reads.
PanelAvailable ==
    \A n \in DOMAIN tasks :
        (st[n] = "running" /\ tasks[n].kind \in {"look", "trail"}) =>
            \A i \in tasks[n].k..(qp.mt - 1) :
                (\E c \in Writes(tasks[n]) : tileIsLocal(i, c)) =>
                    /\ ValidLocs(A[<<i, tasks[n].k>>]) # {}
                    /\ \A l \in ValidLocs(A[<<i, tasks[n].k>>]) :
                          A[<<i, tasks[n].k>>].d[l] = tasks[n].k + 1

\* C6: when geqrf returns, the origin instance of every local tile is
\* valid and holds the last content written to the tile by any task;
\* tileUpdateAllOrigin runs only after every spawned task has completed,
\* and releaseWorkspace only after tileUpdateAllOrigin.
C6_OriginFidelity ==
    /\ mpc.ph \in {"updateAll", "release", "returned"} =>
          \A n \in DOMAIN tasks : st[n] = "done"
    /\ mpc.ph = "returned" =>
          \A t \in DOMAIN A :
              tileIsLocal(t[1], t[2]) =>
                  /\ IsValid(A[t], HostNum)
                  /\ A[t].d[HostNum] = lastw[t]
                  /\ \A l \in Devs : A[t].s[l] = "Absent"

\* geqrf has returned on a device run with more columns than rows: a
\* column no cleanup task covers was last written on a device and is now
\* in the origin.
C6_Witness ==
    /\ mpc.ph = "returned"
    /\ qp.target = "Devices"
    /\ \E t \in DOMAIN A :
          /\ tileIsLocal(t[1], t[2])
          /\ t[2] >= A_min_mtnt
          /\ lastw[t] > 0
          /\ A[t].s[HostNum] = "Modified"
          /\ A[t].d[HostNum] = lastw[t]

\* Two tasks both touch column c.
BothTouch(m, n, c) == c \in Touches(tasks[m]) /\ c \in Touches(tasks[n])

\* The task submitted first has completed before the other begins.
InOrder(m, n) == st[n] # "waiting" => st[m] = "done"

\* C10 as stated: of any two tasks that touch a block-column, reading or
\* writing it, the one submitted first completes before the other begins.
C10_AsWritten ==
    \A n \in DOMAIN tasks : \A m \in 1..(n - 1) :
        (\E c \in 0..(qp.nt - 1) : BothTouch(m, n, c)) => InOrder(m, n)

\* C10: of any two tasks that touch a block-column, at least one of them
\* writing (or releasing) it, the one submitted first completes before the
\* other begins; two tasks that only read the column may overlap.
C10_WritersOrdered ==
    \A n \in DOMAIN tasks : \A m \in 1..(n - 1) :
        (\E c \in 0..(qp.nt - 1) :
            /\ BothTouch(m, n, c)
            /\ c \in Writes(tasks[m]) \cup Writes(tasks[n])) => InOrder(m, n)

\* The lookahead update and the trailing update of one step run at the
\* same time, both reading the panel; the next panel waits.
C10_Witness ==
    \E n \in DOMAIN tasks : \E m \in 1..(n - 1) :
        /\ tasks[m].kind = "look" /\ tasks[n].kind = "trail"
        /\ tasks[m].k = tasks[n].k
        /\ st[m] = "running" /\ st[n] = "running"
        /\ \E h \in DOMAIN tasks :
              tasks[h].kind = "clean" /\ tasks[h].k = tasks[n].k
              /\ st[h] = "waiting"

\* ------------------------------------------------------------------------
\* listBcast of one item (i, j, S) (section 4.5): the participants are the
\* root and the ranks of S, in a deterministic order with the root first;
\* every participant receives from the rank cubeBcastPattern names, then
\* forwards to the ranks it names, then returns.
\* ------------------------------------------------------------------------
MaxRanks == 4
MaxRadix == 3

Ranks == 0..(MaxRanks - 1)

RECURSIVE Pow(_, _)
Pow(b, e) == IF e = 0 THEN 1 ELSE b * Pow(b, e - 1)

\* Number of dimensions of the cube holding `size` ranks.
RECURSIVE NumDimensions(_, _, _)
NumDimensions(size, radix, d) ==
    IF Pow(radix, d) >= size THEN d ELSE NumDimensions(size, radix, d + 1)

\* The first dimension in which the rank has a non-zero digit (the number
\* of dimensions for rank 0).
RECURSIVE FirstNonzero(_, _, _, _)
FirstNonzero(rank, radix, nd, d) ==
    IF d >= nd \/ (rank \div Pow(radix, d)) % radix # 0 THEN d
    ELSE FirstNonzero(rank, radix, nd, d + 1)

Dimension(size, rank, radix) ==
    FirstNonzero(rank, radix, NumDimensions(size, radix, 1), 0)

\* cubeBcastPattern(size, rank, radix, recv_from, send_to): receive from the
\* rank with the first non-zero digit cleared.
recv_from(size, rank, radix) ==
    LET rp == Pow(radix, Dimension(size, rank, radix)) IN
    IF rank = 0 THEN << >>
    ELSE <<rank - ((rank \div rp) % radix) * rp>>

\* A binomial level: only the rank one digit step away.
FirstDigitRank(size, rank, radix, d) ==
    LET all == <<rank + Pow(radix, d)>>
        InCube(x) == x < size
    IN  SelectSeq(all, InCube)

\* The ranks differing from `rank` in one digit of dimension d.
DigitRanks(size, rank, radix, d) ==
    LET all == [g \in 1..(radix - 1) |-> rank + g * Pow(radix, d)]
        InCube(x) == x < size
    IN  SelectSeq(all, InCube)

\* Send to the ranks of every dimension below the first non-zero digit.
RECURSIVE SendDims(_, _, _, _)
SendDims(size, rank, radix, d) ==
    IF d < 0 THEN << >>
    ELSE DigitRanks(size, rank, radix, d) \o SendDims(size, rank, radix, d - 1)

send_to(size, rank, radix) ==
    SendDims(size, rank, radix, Dimension(size, rank, radix) - 1)

\* The broadcast set as a vector: sorted, then shifted so that the root is
\* at position zero.
RECURSIVE SortedSeq(_)
SortedSeq(S) ==
    IF S = {} THEN << >>
    ELSE <<MinOf(S)>> \o SortedSeq(S \ {MinOf(S)})

Participants == bp.S \cup {bp.root}

new_vec(P, root) ==
    SortedSeq({r \in P : r >= root}) \o SortedSeq({r \in P : r < root})

BcastVec == new_vec(Participants, bp.root)

\* Position (from 0) of rank r in the vector.
IndexOf(r) == (CHOOSE n \in DOMAIN BcastVec : BcastVec[n] = r) - 1

Parents(r) ==
    LET f == recv_from(Len(BcastVec), IndexOf(r), bp.radix)
    IN  [n \in DOMAIN f |-> BcastVec[f[n] + 1]]

Children(r) ==
    LET f == send_to(Len(BcastVec), IndexOf(r), bp.radix)
    IN  [n \in DOMAIN f |-> BcastVec[f[n] + 1]]

Items ==
    [S : (SUBSET Ranks) \ {{}}, root : Ranks, radix : 2..MaxRadix,
     v : 1..MaxVal, rs : {"Shared", "Modified"}]

\* The root's entry before the broadcast.
RootEntry ==
    [s |-> [l \in Locs |-> IF l = HostNum THEN bp.rs ELSE "Absent"],
     d |-> [l \in Locs |-> IF l = HostNum THEN bp.v ELSE 0]]

BcInit ==
    /\ bp \in Items
    /\ bt = [r \in Ranks |-> IF r = bp.root THEN RootEntry ELSE EmptyEntry]
    /\ bpc = [r \in Ranks |->
                 IF r \notin Participants THEN "out"
                 ELSE IF Len(Parents(r)) = 0 THEN "send" ELSE "recv"]
    /\ sent = [r \in Ranks |-> 0]
    /\ net = {}
    /\ CohIdle /\ ConcIdle /\ QrIdle /\ PrIdle /\ HrIdle /\ SetIdle /\ NuIdle /\ PbIdle /\ TtIdle /\ PvIdle /\ DkIdle /\ BaIdle

\* Receive the tile from the parent: a coherence transition (recv).
BcRecv(r) ==
    /\ bpc[r] = "recv"
    /\ \E m \in net :
          /\ m.dst = r /\ m.src = Parents(r)[1]
          /\ bt' = [bt EXCEPT ![r] = RecvTile(bt[r], m.v)]
          /\ net' = net \ {m}
    /\ bpc' = [bpc EXCEPT ![r] = "send"]
    /\ UNCHANGED <<bp, sent>>
    /\ UNCHANGED notBc

\* Forward to the next child: the host instance is read and sent; the
\* sender's state remains unchanged.
BcSend(r) ==
    /\ bpc[r] = "send"
    /\ sent[r] < Len(Children(r))
    /\ CanSend(bt[r])
    /\ net' = net \cup {[src |-> r, dst |-> Children(r)[sent[r] + 1],
                         v |-> bt[r].d[HostNum]]}
    /\ sent' = [sent EXCEPT ![r] = sent[r] + 1]
    /\ UNCHANGED <<bp, bt, bpc>>
    /\ UNCHANGED notBc

\* The participant returns once it has forwarded to all its children.
BcReturn(r) ==
    /\ bpc[r] = "send"
    /\ sent[r] = Len(Children(r))
    /\ bpc' = [bpc EXCEPT ![r] = "done"]
    /\ UNCHANGED <<bp, bt, sent, net>>
    /\ UNCHANGED notBc

BcNext ==
    \/ \E r \in Ranks : BcRecv(r)
    \/ \E r \in Ranks : BcSend(r)
    \/ \E r \in Ranks : BcReturn(r)

SpecBcast == BcInit /\ [][BcNext]_vars

\* Participant r can receive, forward or return.
CanStep(r) ==
    \/ /\ bpc[r] = "recv"
       /\ \E m \in net : m.dst = r /\ m.src = Parents(r)[1]
    \/ /\ bpc[r] = "send"
       /\ sent[r] = Len(Children(r)) \/ CanSend(bt[r])

BcDone == \A r \in Participants : bpc[r] = "done"

HoldsShared(r) ==
    bt[r].s[HostNum] = "Shared" /\ bt[r].d[HostNum] = bp.v

\* C9 as stated: after the broadcast has completed on all participants,
\* every rank in S holds the tile in state Shared with the root's content.
C9_AsWritten ==
    BcDone => \A r \in bp.S : HoldsShared(r)

\* C9: the broadcast completes (no participant is left waiting); after it
\* has completed on all participants, every rank in S other than the root
\* holds the tile in state Shared with content identical to the root's
\* content before the broadcast, the root's instance is unchanged (Shared
\* or Modified, as it was), and nothing is left in flight; a participant
\* returns only after forwarding to all its children.  For every S and
\* every root.
C9_BcastComplete ==
    /\ BcDone =>
          /\ \A r \in bp.S \ {bp.root} : HoldsShared(r)
          /\ bt[bp.root] = RootEntry
          /\ net = {}
    /\ \A r \in Participants :
          bpc[r] = "done" => sent[r] = Len(Children(r))
    /\ ~BcDone => \E r \in Participants : CanStep(r)

\* Completed with a root that is not the lowest rank and a receiver that
\* forwarded the tile.
C9_Witness ==
    /\ BcDone
    /\ Cardinality(bp.S) >= 3
    /\ bp.root # MinOf(Participants)
    /\ \E r \in bp.S \ {bp.root} : sent[r] > 0 /\ HoldsShared(r)

\* ------------------------------------------------------------------------
\* geqrf: what the dependences of the trailing task order
\* ------------------------------------------------------------------------
IsTrail(n, k) == tasks[n].kind = "trail" /\ tasks[n].k = k
IsPanel(n, k) == tasks[n].kind = "panel" /\ tasks[n].k = k

\* C11 as stated: for every lookahead and step k, the panel task of step
\* k+1 waits until the trailing task of step k has completed.
C11_AsWritten ==
    \A n \in DOMAIN tasks : \A m \in 1..(n - 1) :
        (\E k \in 0..MaxMt : IsTrail(m, k) /\ IsPanel(n, k + 1)) =>
            InOrder(m, n)

\* C11: the inout dependence on block[nt-1] forces the trailing task of
\* every later step to wait until step k's trailing task has completed;
\* the panels that wait for it are those of steps k+1+L and later (through
\* block[k+1+L]), which is the panel of step k+1 only for lookahead L = 0.
C11_TrailingOrder ==
    \A n \in DOMAIN tasks : \A m \in 1..(n - 1) :
        (/\ tasks[m].kind = "trail"
         /\ \/ tasks[n].kind = "trail"
            \/ /\ tasks[n].kind = "panel"
               /\ tasks[n].k >= tasks[m].k + 1 + qp.la) => InOrder(m, n)

\* With lookahead, the panel of step k+1 is done while the trailing task of
\* step k still runs, and the trailing task of step k+1 waits for it.
C11_Witness ==
    /\ qp.la >= 1
    /\ \E n \in DOMAIN tasks : \E m \in 1..(n - 1) : \E h \in DOMAIN tasks :
          /\ IsTrail(m, tasks[m].k) /\ st[m] = "running"
          /\ IsTrail(n, tasks[m].k + 1) /\ st[n] = "waiting"
          /\ IsPanel(h, tasks[m].k + 1) /\ st[h] = "done"

\* ------------------------------------------------------------------------
\* geqrf: the operations each block-column receives
\* ------------------------------------------------------------------------
\* The sequence of a right-looking factorization without lookahead: the
\* updates of steps 0 .. min(j, min(mt,nt))-1, then the panel of column j.
Min2(a, b) == IF a < b THEN a ELSE b

ExpectedLog(j) ==
    [n \in 1..Min2(j, A_min_mtnt) |-> <<"update", n - 1>>]
    \o (IF j < A_min_mtnt THEN << <<"panel", j>> >> ELSE << >>)

IsPrefix(a, b) ==
    Len(a) <= Len(b) /\ \A n \in 1..Len(a) : a[n] = b[n]

\* C12: for every lookahead and every schedule the dependences allow, each
\* column j receives the updates of steps 0..min(j, min(mt,nt))-1 in
\* increasing order, each once, then its panel factorization; an update of
\* step k is applied only after the panel of step k; at return the
\* sequence of every column is complete.  The sequence does not depend on
\* the lookahead.
C12_ColumnSequence ==
    \A j \in DOMAIN colog :
        /\ IsPrefix(colog[j], ExpectedLog(j))
        /\ \A n \in 1..Len(colog[j]) :
              colog[j][n][1] = "update" =>
                  \E h \in 1..Len(colog[colog[j][n][2]]) :
                      colog[colog[j][n][2]][h] = <<"panel", colog[j][n][2]>>
        /\ mpc.ph = "returned" => colog[j] = ExpectedLog(j)

\* With lookahead, the panel of column 1 has been factored after its
\* update from step 0 while a later column has not yet been updated.
C12_Witness ==
    /\ qp.la >= 1
    /\ qp.nt >= 3
    /\ A_min_mtnt >= 2
    /\ colog[1] = << <<"update", 0>>, <<"panel", 1>> >>
    /\ colog[qp.nt - 1] = << >>

\* ------------------------------------------------------------------------
\* geqrf: the MPI tags of the ttmqr invocations
\* ------------------------------------------------------------------------
IsUpdate(n) == tasks[n].kind \in {"look", "trail"}

\* int tag_j = j: the first column of the range the task updates.
TagStep(t) == t.k

TagZero(t) == 0

Tag(t) == t.j

\* C13 as stated: the collectives of two different (step, column) pairs
\* never carry the same tag.
C13_AsWritten ==
    \A n \in DOMAIN tasks : \A m \in 1..(n - 1) :
        (/\ IsUpdate(m) /\ IsUpdate(n)
         /\ <<tasks[m].k, tasks[m].j>> # <<tasks[n].k, tasks[n].j>>) =>
            Tag(tasks[m]) # Tag(tasks[n])

\* C13: the tag of a ttmqr invocation is the first column j of the range it
\* updates and does not contain the step index: two invocations carry the
\* same tag exactly when their ranges start at the same column, so the
\* invocations of one step carry pairwise different tags, and invocations
\* of different steps on the same first column share the tag.
C13_TagIsColumn ==
    \A n \in DOMAIN tasks : \A m \in 1..(n - 1) :
        (IsUpdate(m) /\ IsUpdate(n)) =>
            /\ Tag(tasks[m]) = Tag(tasks[n]) <=> tasks[m].j = tasks[n].j
            /\ tasks[m].k = tasks[n].k => Tag(tasks[m]) # Tag(tasks[n])
            /\ Tag(tasks[n]) \in (tasks[n].k + 1)..(qp.nt - 1)

\* The trailing task of one step and the lookahead task of the next step
\* carry the same tag; the two update tasks of one step do not.
C13_Witness ==
    \E n \in DOMAIN tasks : \E m \in 1..(n - 1) : \E h \in 1..(n - 1) :
        /\ tasks[m].kind = "trail" /\ tasks[n].kind = "look"
        /\ tasks[m].k + 1 = tasks[n].k
        /\ Tag(tasks[m]) = Tag(tasks[n])
        /\ tasks[h].kind = "look" /\ tasks[h].k = tasks[m].k
        /\ Tag(tasks[h]) # Tag(tasks[m])

\* C14: two ttmqr invocations that carry the same tag both declare inout
\* on one block[] entry and so execute in submission order; two
\* invocations running at the same time carry different tags.
C14_SameTagOrdered ==
    \A n \in DOMAIN tasks : \A m \in 1..(n - 1) :
        (IsUpdate(m) /\ IsUpdate(n)) =>
            /\ Tag(tasks[m]) = Tag(tasks[n]) =>
                  /\ \E c \in 0..(qp.nt - 1) :
                        /\ <<c, "inout">> \in Deps(tasks[m])
                        /\ <<c, "inout">> \in Deps(tasks[n])
                  /\ InOrder(m, n)
            /\ (st[m] = "running" /\ st[n] = "running") =>
                  Tag(tasks[m]) # Tag(tasks[n])

\* An invocation runs after an earlier one with the same tag has
\* completed, at the same time as one with another tag.
C14_Witness ==
    \E n \in DOMAIN tasks : \E m \in 1..(n - 1) : \E h \in DOMAIN tasks :
        /\ IsUpdate(m) /\ IsUpdate(n) /\ IsUpdate(h)
        /\ Tag(tasks[m]) = Tag(tasks[n])
        /\ st[m] = "done" /\ st[n] = "running"
        /\ st[h] = "running" /\ Tag(tasks[h]) # Tag(tasks[n])

\* ------------------------------------------------------------------------
\* internal::permuteRows, HostTask (src/src/internal/internal_swap.cc):
\* every rank of a p x q grid runs the same loops over the block-columns j
\* and the pivots i and takes part in the swaps that involve its tiles.
\* A has PermMt tile-rows of PermNb rows; a row of tile (t, j) is one value
\* (swapLocalRow and swapRemoteRow move whole rows of the tile).
\* ------------------------------------------------------------------------
PermMt == 2
PermNb == 2
PermNt == 2

\* Pivot(tileIndex, elementOffset)
Pivots == [t : 0..(PermMt - 1), o : 0..(PermNb - 1)]

Directions == {"Forward", "Backward"}

PermCalls ==
    [nt : {PermNt}, pivot : [0..(PermNb - 1) -> Pivots],
     p : 1..MaxGrid, q : 1..MaxGrid,
     calls : {<<"Forward">>, <<"Backward">>, <<"Forward", "Backward">>},
     tag : {0}]

PermRanks == 0..(pp.p * pp.q - 1)

\* Tile (t, j) is owned by process (t mod p, j mod q).
tileRank(t, j) == (t % pp.p) + (j % pp.q) * pp.p

PermRows(c) == (0..(PermMt - 1)) \X (0..(PermNb - 1)) \X (0..(c.nt - 1))

\* Every element carries its original position.
Original(c) == [x \in PermRows(c) |-> x]

\* Apply pivots forward (0, ..., k-1) or reverse (k-1, ..., 0).
PivotIndexForward(dir, x) == x

PivotIndex(dir, x) ==
    IF dir = "Forward" THEN x ELSE PermNb - 1 - x

\* If pivot not on the diagonal.
NeedsSwapNotDiag(pv, i) == pv.t # 0 \/ pv.o # i

NeedsSwap(pv, i) == pv.t > 0 \/ pv.o > i

\* The tag of a remote swap in block-column j.
SwapTagColumn(j) == pp.tag + j

SwapTag(j) == pp.tag

SwapRows(m, a, b) == [m EXCEPT ![a] = m[b], ![b] = m[a]]

\* A position pc = [c, j, x, ph] in the loops: the pivot index i, the
\* pivot, and the ranks of the diagonal tile (root) and of the pivot tile.
PcI(pc) == PivotIndex(pp.calls[pc.c], pc.x)
PcPivotRank(pc) == tileRank(pp.pivot[PcI(pc)].t, pc.j)
PcRootRank(pc) == tileRank(0, pc.j)

\* Rank r's position in the loops.
CurI(r) == PcI(ppc[r])
CurPivot(r) == pp.pivot[CurI(r)]
IsRoot(r) == r = PcRootRank(ppc[r])
PivotRank(r) == PcPivotRank(ppc[r])

RootRow(r) == <<0, CurI(r), ppc[r].j>>
PivotRow(r) == <<CurPivot(r).t, CurPivot(r).o, ppc[r].j>>

\* The row this rank exchanges remotely, and with whom.
MyRow(r) == IF IsRoot(r) THEN RootRow(r) ELSE PivotRow(r)
PeerRoot(r) == tileRank(0, ppc[r].j)

Peer(r) == IF IsRoot(r) THEN PivotRank(r) ELSE tileRank(0, ppc[r].j)

\* The next iteration of i, j, or the next call.
Advance(pc) ==
    IF pc.x + 1 < PermNb THEN [pc EXCEPT !.x = pc.x + 1, !.ph = "run"]
    ELSE IF pc.j + 1 < pp.nt
    THEN [pc EXCEPT !.j = pc.j + 1, !.x = 0, !.ph = "run"]
    ELSE IF pc.c < Len(pp.calls)
    THEN [c |-> pc.c + 1, j |-> 0, x |-> 0, ph |-> "run"]
    ELSE [pc EXCEPT !.ph = "done"]

\* A rank that neither owns the pivot nor is the root has nothing to do
\* in an iteration and goes on to the next.
RECURSIVE Settle(_, _)
Settle(pc, r) ==
    IF pc.ph = "done" THEN pc
    ELSE IF PcPivotRank(pc) # r /\ PcRootRank(pc) # r
    THEN Settle(Advance(pc), r)
    ELSE pc

PermInit ==
    /\ pp \in PermCalls
    /\ pm = Original(pp)
    /\ ppc = [r \in PermRanks |->
                 Settle([c |-> 1, j |-> 0, x |-> 0, ph |-> "run"], r)]
    /\ pch = [e \in PermRanks \X PermRanks |-> << >>]
    /\ plog = {}
    /\ CohIdle /\ ConcIdle /\ QrIdle /\ BcIdle /\ HrIdle /\ SetIdle /\ NuIdle /\ PbIdle /\ TtIdle /\ PvIdle /\ DkIdle /\ BaIdle

\* I own the pivot and I am the root: local swap, if the pivot is not on
\* the diagonal.
PermLocal(r) ==
    /\ ppc[r].ph = "run"
    /\ PivotRank(r) = r /\ IsRoot(r)
    /\ pm' = IF NeedsSwap(CurPivot(r), CurI(r))
             THEN SwapRows(pm, RootRow(r), PivotRow(r))
             ELSE pm
    /\ ppc' = [ppc EXCEPT ![r] = Settle(Advance(ppc[r]), r)]
    /\ UNCHANGED <<pp, pch, plog>>
    /\ UNCHANGED notPr

\* swapRemoteRow, first half: my row is sent to the peer.
PermSend(r) ==
    /\ ppc[r].ph = "run"
    /\ (PivotRank(r) = r) # IsRoot(r)
    /\ pch' = [pch EXCEPT ![<<r, Peer(r)>>] =
                  Append(@, [v |-> pm[MyRow(r)], tag |-> SwapTag(ppc[r].j),
                             c |-> ppc[r].c, j |-> ppc[r].j, i |-> CurI(r)])]
    /\ plog' = plog \cup {[c |-> ppc[r].c, j |-> ppc[r].j, i |-> CurI(r),
                           tag |-> SwapTag(ppc[r].j), r |-> r,
                           root |-> IsRoot(r), peer |-> Peer(r),
                           n |-> Cardinality({e \in plog : e.r = r})]}
    /\ ppc' = [ppc EXCEPT ![r].ph = "wait"]
    /\ UNCHANGED <<pp, pm>>
    /\ UNCHANGED notPr

\* swapRemoteRow, second half: the peer's row, matched by source and tag in
\* the order it was sent, overwrites mine.
PermRecv(r) ==
    /\ ppc[r].ph = "wait"
    /\ pch[<<Peer(r), r>>] # << >>
    /\ Head(pch[<<Peer(r), r>>]).tag = SwapTag(ppc[r].j)
    /\ pm' = [pm EXCEPT ![MyRow(r)] = Head(pch[<<Peer(r), r>>]).v]
    /\ pch' = [pch EXCEPT ![<<Peer(r), r>>] = Tail(@)]
    /\ ppc' = [ppc EXCEPT ![r] = Settle(Advance(ppc[r]), r)]
    /\ UNCHANGED <<pp, plog>>
    /\ UNCHANGED notPr

PermNext ==
    \/ \E r \in PermRanks : PermLocal(r)
    \/ \E r \in PermRanks : PermSend(r)
    \/ \E r \in PermRanks : PermRecv(r)

SpecPerm == PermInit /\ [][PermNext]_vars

\* Every rank runs whenever it can.
SpecPermFair == SpecPerm /\ WF_vars(PermNext)

PermDone == \A r \in PermRanks : ppc[r].ph = "done"

\* --- the permutation as a sequence of row exchanges of the whole matrix ---
\* Exchange row ao of tile-row at with row bo of tile-row bt in every
\* block-column.
SwapAllCols(m, at, ao, bt2, bo) ==
    [y \in DOMAIN m |->
        IF y[1] = at /\ y[2] = ao THEN m[<<bt2, bo, y[3]>>]
        ELSE IF y[1] = bt2 /\ y[2] = bo THEN m[<<at, ao, y[3]>>]
        ELSE m[y]]

SeqIndex(dir, x) == IF dir = "Forward" THEN x ELSE PermNb - 1 - x

\* Every pivot other than (0, i) exchanges.
RECURSIVE SeqAsWritten(_, _, _)
SeqAsWritten(m, dir, x) ==
    IF x >= PermNb THEN m
    ELSE LET i == SeqIndex(dir, x)
             pv == pp.pivot[i]
         IN  SeqAsWritten(SwapAllCols(m, 0, i, pv.t, pv.o), dir, x + 1)

\* A pivot in tile-row 0 at or above row i does not exchange.
RECURSIVE SeqPermute(_, _, _)
SeqPermute(m, dir, x) ==
    IF x >= PermNb THEN m
    ELSE LET i == SeqIndex(dir, x)
             pv == pp.pivot[i]
         IN  SeqPermute(IF pv.t = 0 /\ pv.o <= i THEN m
                        ELSE SwapAllCols(m, 0, i, pv.t, pv.o), dir, x + 1)

\* C15: permuteRows(Forward, A, P) followed by permuteRows(Backward, A, P)
\* leaves every element of A equal to its original value, for every pivot
\* vector and every distribution of the tiles.
C15_RoundTrip ==
    (PermDone /\ pp.calls = <<"Forward", "Backward">>) => pm = Original(pp)

\* A round trip in which every pivot exchanges rows and rows travelled
\* between ranks.
C15_Witness ==
    /\ PermDone
    /\ pp.calls = <<"Forward", "Backward">>
    /\ pm = Original(pp)
    /\ plog # {}
    /\ \A i \in 0..(PermNb - 1) : pp.pivot[i].t > 0 \/ pp.pivot[i].o > i

C17_AsWritten ==
    \A a \in plog : \A b \in plog : a.j # b.j => a.tag # b.tag

\* C17: every remote row swap of a permuteRows call carries the tag the
\* caller passed, the same for every block-column j and every pivot i;
\* the two halves of a swap are matched by the order in which both ranks
\* go through (j, i): the row a rank receives was sent for the swap it is
\* waiting in.
C17_CallerTag ==
    /\ \A a \in plog : a.tag = pp.tag
    /\ \A r \in PermRanks :
          (ppc[r].ph = "wait" /\ pch[<<Peer(r), r>>] # << >>) =>
              LET h == Head(pch[<<Peer(r), r>>]) IN
              /\ h.tag = pp.tag
              /\ <<h.c, h.j, h.i>> = <<ppc[r].c, ppc[r].j, CurI(r)>>
    /\ PermDone => \A e \in DOMAIN pch : pch[e] = << >>

\* Remote swaps were made in two block-columns under one tag.
C17_Witness ==
    /\ PermDone
    /\ \E a \in plog : \E b \in plog : a.j # b.j /\ a.tag = b.tag

\* ------------------------------------------------------------------------
\* internal::permuteRowsCols on a lower-stored Hermitian matrix
\* (internal_swap.cc:428-688)
\* ------------------------------------------------------------------------
HermNt == 4
HermNb == 2
HermN == HermNt * HermNb

HermPivots == [t : 0..(HermNt - 1), o : 0..(HermNb - 1)]

\* One call in either direction, or a Forward call followed by a Backward
\* call with the same pivot vector.
HermDirs == {<<"Forward">>, <<"Backward">>, <<"Forward", "Backward">>}

HermCalls ==
    [pivot : [0..(HermNb - 1) -> HermPivots],
     p : 1..MaxGrid, q : 1..MaxGrid, dirs : HermDirs, tag : {0}]

\* The passes of the loop over i1 made by the calls together.
HermSteps == HermNb * Len(hp.dirs)

HermRanks == 0..(hp.p * hp.q - 1)

\* 2D block-cyclic ownership of tile (t, j).
tileRankH(t, j) == (t % hp.p) + (j % hp.q) * hp.p

\* The elements of the stored tiles (i, j), j <= i, by global row and
\* column; the stored lower triangle; the diagonal.
Stored ==
    {e \in (0..(HermN - 1)) \X (0..(HermN - 1)) :
        e[1] \div HermNb >= e[2] \div HermNb}
Lower == {e \in Stored : e[1] >= e[2]}
Diagonal == {e \in Stored : e[1] = e[2]}

\* Each element carries the position it came from and whether it has been
\* conjugated.
HermOriginal == [e \in Stored |-> [r |-> e[1], c |-> e[2], cj |-> FALSE]]
conj(v) == [v EXCEPT !.cj = ~v.cj]

\* at(o, jj) of tile (ti, tj), or of its transpose.
At(op, ti, tj, o, jj) ==
    IF op = "NoTrans" THEN <<ti * HermNb + o, tj * HermNb + jj>>
    ELSE <<ti * HermNb + jj, tj * HermNb + o>>

\* The n elements of row o of op(A(ti, tj)) from column joff on.
Vec(joff, n, op, ti, tj, o) ==
    [k \in 1..n |-> At(op, ti, tj, o, joff + k - 1)]

\* lacgv is applied when the two operands differ in orientation.
ConjNever(op1, op2) == FALSE

ConjNeeded(op1, op2) == op1 # op2

\* One call of swapRow: the two vectors, their owners, the tag.
swapRow(joff, n, op1, ti1, tj1, o1, op2, ti2, tj2, o2, tag) ==
    [kind |-> "swap",
     v1 |-> Vec(joff, n, op1, ti1, tj1, o1),
     v2 |-> Vec(joff, n, op2, ti2, tj2, o2),
     r1 |-> tileRankH(ti1, tj1), r2 |-> tileRankH(ti2, tj2),
     t1 |-> <<ti1, tj1>>, t2 |-> <<ti2, tj2>>,
     op1 |-> op1, op2 |-> op2,
     cj |-> ConjNeeded(op1, op2), tag |-> tag]

\* One call of swapElement.
swapElement(ti1, tj1, o1, oj1, ti2, tj2, o2, oj2, tag) ==
    [kind |-> "swap",
     v1 |-> <<At("NoTrans", ti1, tj1, o1, oj1)>>,
     v2 |-> <<At("NoTrans", ti2, tj2, o2, oj2)>>,
     r1 |-> tileRankH(ti1, tj1), r2 |-> tileRankH(ti2, tj2),
     t1 |-> <<ti1, tj1>>, t2 |-> <<ti2, tj2>>,
     op1 |-> "NoTrans", op2 |-> "NoTrans",
     cj |-> FALSE, tag |-> tag]

\* The crossing point A(t2, 0).at(i2, i1).
CrossingDiag(i1, t2, i2) == At("NoTrans", t2, t2, i2, i2)

Crossing(i1, t2, i2) == At("NoTrans", t2, 0, i2, i1)

conjCrossing(i1, t2, i2) ==
    [kind |-> "conj",
     v1 |-> <<Crossing(i1, t2, i2)>>, v2 |-> << >>,
     r1 |-> tileRankH(t2, 0), r2 |-> tileRankH(t2, 0),
     t1 |-> <<t2, 0>>, t2 |-> <<t2, 0>>,
     op1 |-> "NoTrans", op2 |-> "NoTrans",
     cj |-> TRUE, tag |-> hp.tag]

\* The tag of the swap of tile-row t.
RowTagNoOne(t) == hp.tag + t

RowTag(t) == hp.tag + 1 + t

Max0(n) == IF n > 0 THEN n ELSE 0

PivotNotOnDiagonal(i1, t2, i2) == t2 > 0 \/ i2 > i1

\* The body of the loop over i1: the calls made for pivot i1 -> (t2, i2).
SwapsOf(i1, t2, i2) ==
    IF ~PivotNotOnDiagonal(i1, t2, i2) THEN << >>
    ELSE
      <<swapRow(0, i1, "NoTrans", 0, 0, i1, "NoTrans", t2, 0, i2, hp.tag)>>
      \o (IF t2 = 0
          THEN <<swapRow(i1 + 1, i2 - i1 - 1,
                         "Trans", 0, 0, i1, "NoTrans", 0, 0, i2, hp.tag),
                 swapRow(i2 + 1, HermNb - i2 - 1,
                         "Trans", 0, 0, i1, "Trans", 0, 0, i2, hp.tag)>>
          ELSE <<swapRow(i1 + 1, HermNb - i1 - 1,
                         "Trans", 0, 0, i1, "NoTrans", t2, 0, i2, hp.tag),
                 swapRow(0, i2,
                         "Trans", t2, 0, i1, "NoTrans", t2, t2, i2,
                         hp.tag + 1),
                 swapRow(i2 + 1, HermNb - i2 - 1,
                         "Trans", t2, 0, i1, "Trans", t2, t2, i2,
                         hp.tag + 1)>>)
      \o <<conjCrossing(i1, t2, i2)>>
      \o <<swapElement(0, 0, i1, i1, t2, t2, i2, i2, hp.tag)>>
      \o [t \in 1..Max0(t2 - 1) |->
             swapRow(0, HermNb, "Trans", t, 0, i1, "NoTrans", t2, t, i2,
                     RowTag(t))]
      \o [d \in 1..(HermNt - 1 - t2) |->
             swapRow(0, HermNb, "Trans", t2 + d, 0, i1,
                     "Trans", t2 + d, t2, i2, RowTag(t2 + d))]

\* Pivots are applied forward (0, ..., k-1) or in reverse (k-1, ..., 0).
HermIndexForward(x) == x % HermNb

HermIndex(x) ==
    IF hp.dirs[(x \div HermNb) + 1] = "Forward" THEN x % HermNb
    ELSE HermNb - 1 - (x % HermNb)
PassOf(x) ==
    SwapsOf(HermIndex(x), hp.pivot[HermIndex(x)].t, hp.pivot[HermIndex(x)].o)
SwapsAt(x) == hs[x]

\* A rank has nothing to do in a call whose vectors are empty (n == 0) or
\* whose tiles it does not own.
Uninvolved(s, r) ==
    IF s.kind = "conj" THEN s.r1 # r
    ELSE s.v1 = << >> \/ (s.r1 # r /\ s.r2 # r)

\* The next call a rank takes part in.
RECURSIVE HermSettle(_, _)
HermSettle(at, r) ==
    LET pc == CHOOSE c \in {at} : TRUE
        calls == CHOOSE c \in {IF pc.x >= HermSteps THEN << >>
                               ELSE SwapsAt(pc.x)} : TRUE
    IN  IF pc.ph = "done" THEN pc
        ELSE IF pc.x >= HermSteps THEN [pc EXCEPT !.ph = "done"]
        ELSE IF pc.k > Len(calls)
        THEN HermSettle([x |-> pc.x + 1, k |-> 1, ph |-> "run"], r)
        ELSE IF Uninvolved(calls[pc.k], r)
        THEN HermSettle([pc EXCEPT !.k = pc.k + 1], r)
        ELSE pc

HermFirst(r) == HermSettle([x |-> 0, k |-> 1, ph |-> "run"], r)
HermFollowing(pc, r) ==
    HermSettle([x |-> pc.x, k |-> pc.k + 1, ph |-> "run"], r)

\* The calls rank r takes part in from pc on, then the return.
RECURSIVE HermWalk(_, _)
HermWalk(at, r) ==
    LET pc == CHOOSE c \in {at} : TRUE
    IN  IF pc.ph = "done" THEN <<pc>>
        ELSE <<pc>> \o HermWalk(HermFollowing(pc, r), r)

\* The position after the call at pc, read from the walk of rank r.
HermAdvance(pc, r) ==
    LET i == CHOOSE i \in 1..Len(hl[r]) :
                 hl[r][i].x = pc.x /\ hl[r][i].k = pc.k
    IN  hl[r][i + 1]

CurSwap(r) == SwapsAt(hpc[r].x)[hpc[r].k]
MineFirst(r) == CurSwap(r).v1
Mine(r) == IF CurSwap(r).r1 = r THEN CurSwap(r).v1 ELSE CurSwap(r).v2
HermPeer(r) == IF CurSwap(r).r1 = r THEN CurSwap(r).r2 ELSE CurSwap(r).r1

\* lacgv: conjugate the elements v[k..] in place.
RECURSIVE lacgv(_, _, _)
lacgv(m, v, k) ==
    IF k > Len(v) THEN m
    ELSE lacgv([m EXCEPT ![v[k]] = conj(@)], v, k + 1)

\* swapLocalRow: exchange the elements of two vectors one by one.
RECURSIVE swapLocalRow(_, _, _, _)
swapLocalRow(m, v1, v2, k) ==
    IF k > Len(v1) THEN m
    ELSE swapLocalRow([m EXCEPT ![v1[k]] = m[v2[k]], ![v2[k]] = m[v1[k]]],
                      v1, v2, k + 1)

\* The values to overwrite the elements v[k..] with.
RECURSIVE Overwrite(_, _, _, _)
Overwrite(m, v, vals, k) ==
    IF k > Len(v) THEN m
    ELSE Overwrite([m EXCEPT ![v[k]] = vals[k]], v, vals, k + 1)

\* The record of one lacgv of swapRow: rank r conjugated the vector v in
\* its current call; n counts the earlier conjugations of v in that call.
Conjugated(log, r, v) ==
    log \cup {[x |-> hpc[r].x, k |-> hpc[r].k, r |-> r, v |-> v,
               n |-> Cardinality({e \in log : /\ e.x = hpc[r].x
                                              /\ e.k = hpc[r].k
                                              /\ e.v = v})]}

HermInit ==
    /\ hp \in HermCalls
    /\ hm = HermOriginal
    /\ hs = [x \in 0..(HermSteps - 1) |-> PassOf(x)]
    /\ hl = CHOOSE f \in {[r \in HermRanks |-> HermWalk(HermFirst(r), r)]} :
                 TRUE
    /\ hpc = [r \in HermRanks |-> hl[r][1]]
    /\ hch = [e \in HermRanks \X HermRanks |-> << >>]
    /\ hlog = {}
    /\ hcj = {}
    /\ CohIdle /\ ConcIdle /\ QrIdle /\ BcIdle /\ PrIdle /\ SetIdle /\ NuIdle /\ PbIdle /\ TtIdle /\ PvIdle /\ DkIdle /\ BaIdle

\* swapRow / swapElement with both tiles local.
HermLocal(r) ==
    /\ hpc[r].ph = "run"
    /\ CurSwap(r).kind = "swap"
    /\ CurSwap(r).r1 = r /\ CurSwap(r).r2 = r
    /\ hm' = LET s == CurSwap(r)
                 m1 == IF s.cj THEN lacgv(lacgv(hm, s.v1, 1), s.v2, 1)
                       ELSE hm
             IN  swapLocalRow(m1, s.v1, s.v2, 1)
    /\ hcj' = IF CurSwap(r).cj
              THEN Conjugated(Conjugated(hcj, r, CurSwap(r).v1), r,
                              CurSwap(r).v2)
              ELSE hcj
    /\ hpc' = [hpc EXCEPT ![r] = HermAdvance(hpc[r], r)]
    /\ UNCHANGED <<hp, hs, hl, hch, hlog>>
    /\ UNCHANGED notHr

\* The owner of A(t2, 0) conjugates the crossing point.
HermConj(r) ==
    /\ hpc[r].ph = "run"
    /\ CurSwap(r).kind = "conj"
    /\ hm' = lacgv(hm, CurSwap(r).v1, 1)
    /\ hpc' = [hpc EXCEPT ![r] = HermAdvance(hpc[r], r)]
    /\ UNCHANGED <<hp, hs, hl, hch, hlog, hcj>>
    /\ UNCHANGED notHr

\* swapRow / swapElement with one tile local: conjugate my vector if the
\* orientations differ, then send it to the owner of the other tile.
HermSend(r) ==
    /\ hpc[r].ph = "run"
    /\ CurSwap(r).kind = "swap"
    /\ (CurSwap(r).r1 = r) # (CurSwap(r).r2 = r)
    /\ LET s == CurSwap(r)
           m1 == IF s.cj THEN lacgv(hm, Mine(r), 1) ELSE hm
       IN  /\ hm' = m1
           /\ hch' = [hch EXCEPT ![<<r, HermPeer(r)>>] =
                         Append(@, [vals |-> [k \in 1..Len(Mine(r)) |->
                                                 m1[Mine(r)[k]]],
                                    tag |-> s.tag,
                                    x |-> hpc[r].x, k |-> hpc[r].k])]
           /\ hlog' = hlog \cup {[x |-> hpc[r].x, k |-> hpc[r].k,
                                  t1 |-> s.t1, t2 |-> s.t2, tag |-> s.tag,
                                  r |-> r, peer |-> HermPeer(r),
                                  n |-> Cardinality({e \in hlog : e.r = r})]}
           /\ hcj' = IF s.cj THEN Conjugated(hcj, r, Mine(r)) ELSE hcj
    /\ hpc' = [hpc EXCEPT ![r].ph = "wait"]
    /\ UNCHANGED <<hp, hs, hl>>
    /\ UNCHANGED notHr

\* The vector of the other owner, matched by source and tag in the order
\* it was sent, overwrites mine.
HermRecv(r) ==
    /\ hpc[r].ph = "wait"
    /\ hch[<<HermPeer(r), r>>] # << >>
    /\ Head(hch[<<HermPeer(r), r>>]).tag = CurSwap(r).tag
    /\ hm' = Overwrite(hm, Mine(r), Head(hch[<<HermPeer(r), r>>]).vals, 1)
    /\ hch' = [hch EXCEPT ![<<HermPeer(r), r>>] = Tail(@)]
    /\ hpc' = [hpc EXCEPT ![r] = HermAdvance(hpc[r], r)]
    /\ UNCHANGED <<hp, hs, hl, hlog, hcj>>
    /\ UNCHANGED notHr

HermNext ==
    \/ \E r \in HermRanks : HermLocal(r)
    \/ \E r \in HermRanks : HermConj(r)
    \/ \E r \in HermRanks : HermSend(r)
    \/ \E r \in HermRanks : HermRecv(r)

SpecHerm == HermInit /\ [][HermNext]_vars

HermDone == \A r \in HermRanks : hpc[r].ph = "done"

HermTypeOK ==
    /\ hp \in HermCalls
    /\ DOMAIN hm = Stored
    /\ \A r \in HermRanks : hpc[r].ph \in {"run", "wait", "done"}

\* --- the symmetric permutation of the full Hermitian matrix ---
\* The exchange of indices g1 and g2.
Pi(g, g1, g2) == IF g = g1 THEN g2 ELSE IF g = g2 THEN g1 ELSE g

\* The lower triangle of P A P^H, from the lower triangle m of A: element
\* (r, c) of P A P^H is element (Pi r, Pi c) of A, which is stored as such
\* or as the conjugate of element (Pi c, Pi r).
SymPermute(m, g1, g2) ==
    [e \in Lower |->
        LET r == Pi(e[1], g1, g2)
            c == Pi(e[2], g1, g2)
        IN  IF r >= c THEN m[<<r, c>>] ELSE conj(m[<<c, r>>])]

LowerOf(m) == [e \in Lower |-> m[e]]

\* The pivots in the order of the call; a pivot in tile 0 at or above row
\* i1 changes nothing.
RECURSIVE HermSeq(_, _)
HermSeq(m, x) ==
    IF x >= HermSteps THEN m
    ELSE LET i1 == HermIndex(x)
             pv == hp.pivot[i1]
         IN  HermSeq(IF pv.t = 0 /\ pv.o <= i1 THEN m
                     ELSE SymPermute(m, i1, pv.t * HermNb + pv.o), x + 1)

\* C18: for a lower-stored Hermitian A, permuteRowsCols replaces the stored
\* lower triangle, pivot after pivot, by the lower triangle of P A P^H,
\* where P exchanges row/column i1 of tile-row 0 with row/column i2 of
\* tile-row t2: fragments whose stored orientation changes are conjugated,
\* the crossing element is conjugated in place, the two diagonal elements
\* are exchanged; the result is again the lower triangle of a Hermitian
\* matrix; a pivot with t2 = 0 and i2 <= i1 leaves A unchanged.
C18_SymmetricPermutation ==
    HermDone => LowerOf(hm) = HermSeq(LowerOf(HermOriginal), 0)

\* A call that exchanged fragments between ranks, conjugated elements and
\* moved a diagonal element to another tile.
C18_Witness ==
    /\ HermDone
    /\ hlog # {}
    /\ \E i \in 0..(HermNb - 1) : hp.pivot[i].t > 1
    /\ \E e \in Lower : hm[e].cj
    /\ \E e \in Diagonal : hm[e].r # e[1]
    /\ LowerOf(hm) = HermSeq(LowerOf(HermOriginal), 0)

\* C19: permuteRowsCols only permutes the diagonal entries of A among
\* themselves: at every moment each diagonal position holds an entry that
\* came from the diagonal and was never conjugated, and at return the
\* diagonal entries are those of the original matrix (so the multiset of
\* diagonal entries and the trace are unchanged), for every pivot vector
\* and direction.
C19_DiagonalPermuted ==
    /\ \A e \in Diagonal : hm[e].r = hm[e].c /\ ~hm[e].cj
    /\ HermDone =>
          {hm[e] : e \in Diagonal} = {HermOriginal[e] : e \in Diagonal}

\* Diagonal entries changed place, one of them through an exchange between
\* two ranks.
C19_Witness ==
    /\ HermDone
    /\ \E e \in Diagonal : hm[e].r # e[1]
    /\ \E a \in hlog : a.t1 = <<0, 0>> /\ a.t2[1] = a.t2[2] /\ a.t2[1] > 0
    /\ {hm[e] : e \in Diagonal} = {HermOriginal[e] : e \in Diagonal}

\* The tile-row a remote swap works on: that of its first tile.
TileRowOf(a) == a.t1[1]
PivotOf(a) == hp.pivot[HermIndex(a.x)]

\* The tag of each remote swap by the tiles it exchanges.
TagByTiles(a) ==
    /\ a.tag \in hp.tag..(hp.tag + HermNt)
    /\ IF <<0, 0>> \in {a.t1, a.t2} THEN a.tag = hp.tag
       ELSE IF {a.t1, a.t2} = {<<PivotOf(a).t, 0>>,
                               <<PivotOf(a).t, PivotOf(a).t>>}
       THEN a.tag = hp.tag + 1
       ELSE /\ a.t1[2] = 0
            /\ TileRowOf(a) \in (1..(HermNt - 1)) \ {PivotOf(a).t}
            /\ a.tag = hp.tag + 1 + TileRowOf(a)

SetMt == 3
SetNb == 2
SetDevs == 2

SetTargets == {"HostTask", "HostNest", "HostBatch", "Devices"}

\* The calls: one rank `me` of a p x q grid with ndev devices, a matrix of
\* mt x nt tiles whose sizes are given by tileMb and tileNb.
SetCalls ==
    UNION {[target : SetTargets, uplo : {"Lower", "Upper"},
            mt : {mt}, nt : {nt},
            mb : [0..(mt - 1) -> 1..SetNb], nb : [0..(nt - 1) -> 1..SetNb],
            p : 1..MaxGrid, q : 1..MaxGrid, me : 0..(MaxGrid * MaxGrid - 1),
            ndev : 1..SetDevs]
           : mt \in 1..SetMt, nt \in 1..SetMt}

\* Tile (i, j) is owned by process (i mod p, j mod q); a local tile is
\* assigned to a device by its local block-column.
SetIsLocal(i, j) == (i % sp.p) + (j % sp.q) * sp.p = sp.me
SetTileDevice(i, j) == (j \div sp.q) % sp.ndev

\* The tiles of the lower or upper trapezoid.
Trapezoid ==
    {t \in (0..(sp.mt - 1)) \X (0..(sp.nt - 1)) :
        IF sp.uplo = "Lower" THEN t[1] >= t[2] ELSE t[1] <= t[2]}

ElemsOf(c, t) == (0..(c.mb[t[1]] - 1)) \X (0..(c.nb[t[2]] - 1))

\* Tile::set: the off-diagonal value everywhere, the diagonal value on the
\* tile's diagonal.
TileSet(c, t, diagval) ==
    [e \in ElemsOf(c, t) |-> IF e[1] = e[2] THEN diagval ELSE "offdiag"]

\* The body of a HostTask task.
HostSet(c, t) == TileSet(c, t, IF t[1] = t[2] THEN "diag" ELSE "offdiag")

\* irange / jrange: interior, last row, last column, corner.
irangeAll(q) ==
    IF q \in {0, 2} THEN <<0, sp.mt>> ELSE <<sp.mt - 1, sp.mt>>

irange(q) ==
    IF q \in {0, 2} THEN <<0, sp.mt - 1>> ELSE <<sp.mt - 1, sp.mt>>
jrange(q) ==
    IF q \in {0, 1} THEN <<0, sp.nt - 1>> ELSE <<sp.nt - 1, sp.nt>>

\* The tiles of group q (q < 4: off-diagonal tiles, q >= 4: diagonal tiles
\* of region q - 4) on a device.
Group(q, dev) ==
    {t \in Trapezoid :
        /\ irange(q % 4)[1] <= t[1] /\ t[1] < irange(q % 4)[2]
        /\ jrange(q % 4)[1] <= t[2] /\ t[2] < jrange(q % 4)[2]
        /\ SetIsLocal(t[1], t[2]) /\ dev = SetTileDevice(t[1], t[2])
        /\ (q < 4) = (t[1] # t[2])}

\* mb[q], nb[q]: the extents of the first tile of the region.
GroupMb(q) == sp.mb[irange(q % 4)[1]]
GroupNb(q) == sp.nb[jrange(q % 4)[1]]

\* The stride of a tile's instance on a device; lda[q] is the stride of
\* the last tile the loops put into the group.
Stride(t) == sp.mb[t[1]]
LastOf(S) ==
    CHOOSE t \in S : \A u \in S :
        u[2] < t[2] \/ (u[2] = t[2] /\ u[1] <= t[1])
GroupLda(q, dev) == Stride(LastOf(Group(q, dev)))

\* geset on one tile: column-major writes of mb[q] x nb[q] values with
\* leading dimension lda[q], starting at the tile's first element.
GesetWrites(q, dev) ==
    {[a |-> r + c * GroupLda(q, dev),
      v |-> IF r = c /\ q >= 4 THEN "diag" ELSE "offdiag"]
        : r \in 0..(GroupMb(q) - 1), c \in 0..(GroupNb(q) - 1)}

InTile(t, a) == a < Stride(t) * sp.nb[t[2]] /\ a % Stride(t) < sp.mb[t[1]]

Geset(old, t, q, dev) ==
    [e \in DOMAIN old |->
        IF \E w \in GesetWrites(q, dev) : w.a = e[1] + e[2] * Stride(t)
        THEN (CHOOSE w \in GesetWrites(q, dev) :
                 w.a = e[1] + e[2] * Stride(t)).v
        ELSE old[e]]

Overruns(t, q, dev) == \E w \in GesetWrites(q, dev) : ~InTile(t, w.a)

GroupOfTile(t, dev) == CHOOSE q \in 0..7 : t \in Group(q, dev)

\* The task of one device: every group's geset.
DeviceSet(m, dev) ==
    [t \in DOMAIN m |->
        IF \E q \in 0..7 : t \in Group(q, dev)
        THEN Geset(m[t], t, GroupOfTile(t, dev), dev)
        ELSE m[t]]

DeviceOverruns(dev) ==
    \E q \in 0..7 : \E t \in Group(q, dev) : Overruns(t, q, dev)

\* A_tiles_set of the task of one device.
A_tiles_set(dev) ==
    {t \in Trapezoid : SetIsLocal(t[1], t[2]) /\ dev = SetTileDevice(t[1], t[2])}

\* The tiles of a set in the order the loops over j and i visit them.
Visited(u, t) == u[2] < t[2] \/ (u[2] = t[2] /\ u[1] <= t[1])
InLoopVisit(S) ==
    [n \in 1..Cardinality(S) |->
        CHOOSE t \in S : Cardinality({u \in S : Visited(u, t)}) = n]

\* a_array_host after the loops of the groups 0..q-1; group_count[q];
\* batch_count.
RECURSIVE ArrayUpTo(_, _)
ArrayUpTo(q, dev) ==
    IF q = 0 THEN << >>
    ELSE ArrayUpTo(q - 1, dev) \o InLoopVisit(Group(q - 1, dev))
a_array_host(dev) == ArrayUpTo(8, dev)
group_count(q, dev) == Cardinality(Group(q, dev))
batch_count(dev) == Len(a_array_host(dev))

\* device::geset is launched for the groups that hold tiles.
LaunchAll(q, dev) == TRUE

Launched(q, dev) == group_count(q, dev) > 0

\* The value set on the diagonal of the tiles of group q.
GroupDiag(q) == IF q < 4 THEN "offdiag" ELSE "diag"

\* a_array_dev += group_count[q]
NextUnmoved(ptr, q, dev) == ptr

NextPointer(ptr, q, dev) == ptr + group_count(q, dev)

\* The kernel launches for the groups q..7, a_array_dev pointing at entry
\* ptr of the array.
RECURSIVE Launches(_, _, _)
Launches(q, ptr, dev) ==
    IF q = 8 THEN << >>
    ELSE IF Launched(q, dev)
    THEN <<[op |-> "geset", q |-> q, mb |-> GroupMb(q), nb |-> GroupNb(q),
            lda |-> GroupLda(q, dev), offdiag |-> "offdiag",
            diag |-> GroupDiag(q), ptr |-> ptr,
            count |-> group_count(q, dev)]>>
         \o Launches(q + 1, NextPointer(ptr, q, dev), dev)
    ELSE Launches(q + 1, ptr, dev)

\* What the task puts on the compute queue: the copy of the pointer array,
\* then the launches.
device_memcpy(dev) ==
    [op |-> "memcpy", arr |-> a_array_host(dev), n |-> batch_count(dev)]
QueueOf(dev) == <<device_memcpy(dev)>> \o Launches(0, 0, dev)

\* The tiles a launch sets: count pointers of the copied array from ptr on.
SliceOf(arr, l) == [n \in 1..l.count |-> arr[l.ptr + n]]
Sets(queue, l, t) ==
    \E n \in 1..l.count : SliceOf(queue[1].arr, l)[n] = t

\* The pairs the launches of a queue set tile t with, in queue order.
RECURSIVE PairsSet(_, _, _)
PairsSet(queue, k, t) ==
    IF k > Len(queue) THEN << >>
    ELSE (IF Sets(queue, queue[k], t)
          THEN <<(<<queue[k].offdiag, queue[k].diag>>)>> ELSE << >>)
         \o PairsSet(queue, k + 1, t)

SetTasks(c) ==
    IF c.target = "HostTask"
    THEN {t \in Trapezoid : SetIsLocal(t[1], t[2])}
    ELSE IF c.target = "Devices" THEN 0..(c.ndev - 1)
    ELSE {}

SetInit ==
    /\ sp \in SetCalls
    /\ sp.me < sp.p * sp.q
    /\ sm = [t \in (0..(sp.mt - 1)) \X (0..(sp.nt - 1)) |->
                [e \in ElemsOf(sp, t) |-> "old"]]
    /\ spend = SetTasks(sp)
    /\ sst = "run"
    /\ sov = FALSE
    /\ sev = [dev \in 0..(sp.ndev - 1) |->
                 [ph |-> "start", acq |-> {}, queue |-> << >>]]
    /\ swr = [t \in (0..(sp.mt - 1)) \X (0..(sp.nt - 1)) |-> << >>]
    /\ CohIdle /\ ConcIdle /\ QrIdle /\ BcIdle /\ PrIdle /\ HrIdle /\ NuIdle /\ PbIdle /\ TtIdle /\ PvIdle /\ DkIdle /\ BaIdle

\* One task of the HostTask taskgroup.
SetHostTask(t) ==
    /\ sst = "run" /\ sp.target = "HostTask"
    /\ t \in spend
    /\ sm' = [sm EXCEPT ![t] = HostSet(sp, t)]
    /\ swr' = [swr EXCEPT ![t] =
                  Append(@, <<"offdiag",
                              IF t[1] = t[2] THEN "diag" ELSE "offdiag">>)]
    /\ spend' = spend \ {t}
    /\ UNCHANGED <<sp, sst, sov, sev>>
    /\ UNCHANGED notSet

\* The task of a device collects its tiles and gets them for writing.
SetDeviceAcquire(dev) ==
    /\ sst = "run" /\ sp.target = "Devices"
    /\ dev \in spend
    /\ sev[dev].ph = "start"
    /\ sev' = [sev EXCEPT ![dev] =
                  [@ EXCEPT !.ph = "acquired", !.acq = A_tiles_set(dev)]]
    /\ UNCHANGED <<sp, sm, spend, sst, sov, swr>>
    /\ UNCHANGED notSet

\* It fills the pointer array group by group, then puts the copy of the
\* array and the launches on the compute queue.
SetDeviceBatch(dev) ==
    /\ sst = "run" /\ sp.target = "Devices"
    /\ dev \in spend
    /\ sev[dev].ph = "acquired"
    /\ sev' = [sev EXCEPT ![dev] =
                  [@ EXCEPT !.ph = "enqueued", !.queue = QueueOf(dev)]]
    /\ UNCHANGED <<sp, sm, spend, sst, sov, swr>>
    /\ UNCHANGED notSet

\* queue->sync(): the queue has run when the task of the device ends.
SetDeviceTask(dev) ==
    /\ sst = "run" /\ sp.target = "Devices"
    /\ dev \in spend
    /\ sev[dev].ph = "enqueued"
    /\ sm' = DeviceSet(sm, dev)
    /\ swr' = [t \in DOMAIN swr |->
                  swr[t] \o PairsSet(sev[dev].queue, 2, t)]
    /\ sov' = (sov \/ DeviceOverruns(dev))
    /\ sev' = [sev EXCEPT ![dev].ph = "synced"]
    /\ spend' = spend \ {dev}
    /\ UNCHANGED <<sp, sst>>
    /\ UNCHANGED notSet

\* slate_not_implemented throws.
SetNotImplemented ==
    /\ sst = "run" /\ sp.target \in {"HostNest", "HostBatch"}
    /\ sst' = "thrown"
    /\ UNCHANGED <<sp, sm, spend, sov, sev, swr>>
    /\ UNCHANGED notSet

\* The end of the taskgroup.
SetReturn ==
    /\ sst = "run" /\ sp.target \in {"HostTask", "Devices"}
    /\ spend = {}
    /\ sst' = "returned"
    /\ UNCHANGED <<sp, sm, spend, sov, sev, swr>>
    /\ UNCHANGED notSet

SetNext ==
    \/ \E t \in Trapezoid : SetHostTask(t)
    \/ \E dev \in 0..(SetDevs - 1) : SetDeviceAcquire(dev)
    \/ \E dev \in 0..(SetDevs - 1) : SetDeviceBatch(dev)
    \/ \E dev \in 0..(SetDevs - 1) : SetDeviceTask(dev)
    \/ SetNotImplemented
    \/ SetReturn

SpecSet == SetInit /\ [][SetNext]_vars

\* What the HostTask backend leaves in the tiles.
HostTaskResult ==
    [t \in DOMAIN sm |->
        IF t \in Trapezoid /\ SetIsLocal(t[1], t[2]) THEN HostSet(sp, t)
        ELSE [e \in ElemsOf(sp, t) |-> "old"]]

\* The tile sizes are uniform but for the last row and the last column.
UniformTiles ==
    /\ \A i \in 0..(sp.mt - 2) : sp.mb[i] = sp.mb[0]
    /\ \A j \in 0..(sp.nt - 2) : sp.nb[j] = sp.nb[0]

\* C21: for every Target in {HostTask, HostNest, HostBatch, Devices},
\* internal::set completes and leaves the tiles of the trapezoid matrix
\* with the same contents as the HostTask backend.
C21_TargetEquivalence ==
    sst # "run" => (sst = "returned" /\ sm = HostTaskResult /\ ~sov)

\* What the backends do: HostTask and, with tile sizes uniform but for the
\* last row and column, Devices leave the HostTask contents; HostNest and
\* HostBatch throw and leave the tiles untouched.
SetImplemented ==
    /\ (sst = "returned" /\ (sp.target = "HostTask" \/ UniformTiles))
          => (sm = HostTaskResult /\ ~sov)
    /\ sst = "thrown" =>
          /\ sp.target \in {"HostNest", "HostBatch"}
          /\ \A t \in DOMAIN sm : \A e \in DOMAIN sm[t] : sm[t][e] = "old"

\* ------------------------------------------------------------------------
\* Non-uniform tile sizes (examples/ex13_non_uniform_block_size.cc)
\* ------------------------------------------------------------------------
NuMaxN == 5
NuMaxNb == 3

\* The user functions: a positive width for every tile index; among them
\* the example's tileNb(j) = (j % 2 != 0 ? nb/2 : nb).
NuFunctions == [0..(NuMaxN - 1) -> 1..NuMaxNb]
ExampleTileNb(nb) == [j \in 0..(NuMaxN - 1) |-> IF j % 2 # 0 THEN nb \div 2 ELSE nb]

RECURSIVE NuSum(_, _)
NuSum(f, k) == IF k = 0 THEN 0 ELSE f[k - 1] + NuSum(f, k - 1)

\* A.tileNb(j): the user's width, the last tile taking what is left.
LastNbUnclipped(c, j) == c.tileNb[j]

A_tileNb(c, j) == IF j = c.nt - 1 THEN c.last_nb ELSE c.tileNb[j]

NuInit ==
    /\ nu \in [n : 1..NuMaxN, tileNb : NuFunctions, nt : {0}, last_nb : {0},
               j : {0}, jj : {0}, ph : {"count"}, ok : {TRUE}]
    /\ CohIdle /\ ConcIdle /\ QrIdle /\ BcIdle /\ PrIdle /\ HrIdle /\ SetIdle /\ PbIdle /\ TtIdle /\ PvIdle /\ DkIdle /\ BaIdle

\* The constructor counts the tiles the user's widths need to cover n.
NuCount ==
    /\ nu.ph = "count" /\ nu.jj < nu.n
    /\ nu' = [nu EXCEPT !.jj = nu.jj + nu.tileNb[nu.nt], !.nt = nu.nt + 1,
                        !.last_nb = nu.n - nu.jj]
    /\ UNCHANGED notNu

NuBuilt ==
    /\ nu.ph = "count" /\ nu.jj >= nu.n
    /\ nu' = [nu EXCEPT !.ph = "verify", !.j = 0, !.jj = 0]
    /\ UNCHANGED notNu

\* verify nt, tileNb(i), and sum tileNb(i) == n
NuVerify ==
    /\ nu.ph = "verify" /\ nu.j < nu.nt
    /\ nu' = [nu EXCEPT
                !.ok = nu.ok /\ A_tileNb(nu, nu.j)
                                  = Min2(nu.tileNb[nu.j], nu.n - nu.jj),
                !.jj = nu.jj + A_tileNb(nu, nu.j),
                !.j = nu.j + 1]
    /\ UNCHANGED notNu

NuEnd ==
    /\ nu.ph = "verify" /\ nu.j >= nu.nt
    /\ nu' = [nu EXCEPT !.ok = nu.ok /\ nu.jj = nu.n, !.ph = "done"]
    /\ UNCHANGED notNu

NuNext == NuCount \/ NuBuilt \/ NuVerify \/ NuEnd

SpecNu == NuInit /\ [][NuNext]_vars

NuWidths(c) == [j \in 0..(c.nt - 1) |-> A_tileNb(c, j)]

PbMaxMt == 3
PbMaxKd == 2

PbOps == {"NoTrans", "ConjTrans"}
PbUplos == {"Lower", "Upper"}

\* A view of a band matrix: the stored triangle, the op applied to it, the
\* bandwidth, the number of tile rows, the diag attribute.
PbViews ==
    [stored : PbUplos, op : PbOps, kd : 0..PbMaxKd, mt : 1..PbMaxMt,
     diag : {"NonUnit"}]

\* The logical uplo of a view: that of the storage, flipped by a transpose.
FlipUplo(u) == IF u = "Lower" THEN "Upper" ELSE "Lower"
uplo(v) == IF v.op = "NoTrans" THEN v.stored ELSE FlipUplo(v.stored)

conj_transpose(v) ==
    [v EXCEPT !.op = IF v.op = "NoTrans" THEN "ConjTrans" ELSE "NoTrans"]

\* if upper, change to lower
KeepView(v) == v

ToLower(v) == IF uplo(v) = "Upper" THEN conj_transpose(v) ELSE v

TriangularBandMatrix(diag, v) == [v EXCEPT !.diag = diag]

\* tbsm(Side::Left, one, T, B): B is overwritten by the solution of
\* T X = B; T is read only.
tbsm(T, B) == Append(B, T)

PbInit ==
    /\ pb \in [A : PbViews, Adata : {"factor"}, nrhs_mt : 1..PbMaxMt,
               A_ : {"none"}, L : {"none"}, LT : {"none"},
               B : {<<"rhs">>}, solves : {<< >>}, pc : {"entry"}]
    /\ pb.nrhs_mt = pb.A.mt
    /\ CohIdle /\ ConcIdle /\ QrIdle /\ BcIdle /\ PrIdle /\ HrIdle /\ SetIdle /\ TtIdle /\ PvIdle /\ DkIdle /\ BaIdle
    /\ NuIdle

\* auto A_ = A; if upper, change to lower
PbCopy ==
    /\ pb.pc = "entry"
    /\ pb' = [pb EXCEPT !.A_ = ToLower(pb.A), !.pc = "views"]
    /\ UNCHANGED notPb

\* L = TriangularBandMatrix(Diag::NonUnit, A_); LT = conj_transpose(L)
PbViewsMade ==
    /\ pb.pc = "views"
    /\ pb' = [pb EXCEPT
                !.L = TriangularBandMatrix("NonUnit", pb.A_),
                !.LT = conj_transpose(TriangularBandMatrix("NonUnit", pb.A_)),
                !.pc = "solve1"]
    /\ UNCHANGED notPb

\* tbsm(Side::Left, one, L, B, opts)
PbSolveL ==
    /\ pb.pc = "solve1"
    /\ pb' = [pb EXCEPT !.B = tbsm(pb.L, pb.B),
                        !.solves = Append(pb.solves, pb.L),
                        !.pc = "solve2"]
    /\ UNCHANGED notPb

\* tbsm(Side::Left, one, LT, B, opts)
PbSolveLT ==
    /\ pb.pc = "solve2"
    /\ pb' = [pb EXCEPT !.B = tbsm(pb.LT, pb.B),
                        !.solves = Append(pb.solves, pb.LT),
                        !.pc = "return"]
    /\ UNCHANGED notPb

PbReturn ==
    /\ pb.pc = "return"
    /\ pb' = [pb EXCEPT !.pc = "done"]
    /\ UNCHANGED notPb

PbNext == PbCopy \/ PbViewsMade \/ PbSolveL \/ PbSolveLT \/ PbReturn

SpecPb == PbInit /\ [][PbNext]_vars

\* The lower factor of the caller's A: A itself if A is lower, its
\* conjugate transpose if A is upper.
LowerFactor(v) ==
    [stored |-> v.stored,
     op |-> IF (v.stored = "Lower") = (v.op = "NoTrans") THEN v.op
            ELSE IF v.op = "NoTrans" THEN "ConjTrans" ELSE "NoTrans",
     kd |-> v.kd, mt |-> v.mt, diag |-> "NonUnit"]

\* C23: pbtrs performs exactly two triangular band solves on B, in this
\* order: with the lower factor L, then with conj_transpose(L), where L is
\* A if A is lower and conj_transpose(A) if A is upper; the caller's A
\* (its view attributes and its tile contents) is never changed, and only
\* B is overwritten.
C23_TwoSolves ==
    /\ \E a \in PbViews : pb.A = a /\ pb.Adata = "factor"
    /\ Len(pb.solves) <= 2
    /\ pb.B = <<"rhs">> \o pb.solves
    /\ \A k \in 1..Len(pb.solves) :
          /\ k = 1 => /\ pb.solves[k] = LowerFactor(pb.A)
                      /\ uplo(pb.solves[k]) = "Lower"
          /\ k = 2 => /\ pb.solves[k] = conj_transpose(LowerFactor(pb.A))
                      /\ uplo(pb.solves[k]) = "Upper"
    /\ pb.pc = "done" => Len(pb.solves) = 2

\* A call with an upper A that returned.
C23_Witness ==
    /\ pb.pc = "done"
    /\ uplo(pb.A) = "Upper" /\ pb.A.stored = "Upper"
    /\ Len(pb.solves) = 2
    /\ pb.solves[1].op = "ConjTrans"

\* ------------------------------------------------------------------------
\* geqrf: the order the block[] dependences impose
\* ------------------------------------------------------------------------
\* Task n comes after task m in the dependence graph: directly, or through
\* tasks submitted in between.
RECURSIVE OrderedBy(_, _)
OrderedBy(m, n) ==
    \/ Conflict(tasks[m], tasks[n])
    \/ \E h \in (m + 1)..(n - 1) :
          Conflict(tasks[m], tasks[h]) /\ OrderedBy(h, n)

\* A column both tasks access and at least one writes or releases.
Clash(m, n) ==
    \E c \in 0..(qp.nt - 1) :
        /\ BothTouch(m, n, c)
        /\ c \in Writes(tasks[m]) \cup Writes(tasks[n])

\* C24: for every lookahead and every mt, nt, any two tasks that access
\* the same block-column of A, at least one of them writing or releasing
\* it, are ordered by the declared block[] dependences, directly or
\* transitively, also on the columns the trailing task updates without
\* naming them, and never run at the same time; in particular the cleanup
\* task of step k does not start before every update task of step k has
\* completed.
C24_ClashesOrdered ==
    /\ \A n \in DOMAIN tasks : \A m \in 1..(n - 1) :
          Clash(m, n) => (OrderedBy(m, n) /\ InOrder(m, n))
    /\ \A n \in DOMAIN tasks : \A m \in DOMAIN tasks :
          (/\ tasks[n].kind = "clean" /\ st[n] # "waiting"
           /\ IsUpdate(m) /\ tasks[m].k = tasks[n].k) => st[m] = "done"

\* The panel of step 2 waits for the trailing task of step 0, which is
\* updating column 2 without naming it: the two are ordered only through
\* the trailing task of step 1.
C24_Witness ==
    \E n \in DOMAIN tasks : \E m \in 1..(n - 1) :
        /\ tasks[m].kind = "trail" /\ st[m] = "running"
        /\ tasks[n].kind = "panel" /\ st[n] = "waiting"
        /\ tasks[n].k \in Writes(tasks[m])
        /\ ~Conflict(tasks[m], tasks[n])
        /\ OrderedBy(m, n)

\* C25: for lookahead L >= 1 no chain of dependences leads from step k's
\* trailing task to step k+1's panel task, so the panel may start while
\* the trailing task is still running; the panel waits for the lookahead
\* update of column k+1; for L = 0 the panel of step k+1 cannot start
\* before step k's trailing task has completed.
C25_PanelOverlap ==
    \A n \in DOMAIN tasks : \A m \in 1..(n - 1) :
        /\ (IsTrail(m, tasks[m].k) /\ IsPanel(n, tasks[m].k + 1)) =>
              IF qp.la = 0 THEN OrderedBy(m, n) /\ InOrder(m, n)
              ELSE ~OrderedBy(m, n)
        /\ (/\ tasks[m].kind = "look" /\ tasks[m].j = tasks[m].k + 1
            /\ IsPanel(n, tasks[m].k + 1)) => InOrder(m, n)

\* With lookahead 1, the panel of step k+1 and the trailing task of step k
\* run at the same time, the lookahead update of column k+1 being done.
C25_Witness ==
    /\ qp.la >= 1
    /\ \E n \in DOMAIN tasks : \E m \in 1..(n - 1) : \E h \in 1..(n - 1) :
          /\ IsTrail(m, tasks[m].k) /\ st[m] = "running"
          /\ IsPanel(n, tasks[m].k + 1) /\ st[n] = "running"
          /\ tasks[h].kind = "look" /\ tasks[h].k = tasks[m].k
          /\ tasks[h].j = tasks[m].k + 1 /\ st[h] = "done"

\* The update tasks of step k created so far that apply its reflectors to
\* column j.
UpdatesOf(k, j) ==
    {n \in DOMAIN tasks :
        /\ tasks[n].k = k
        /\ \/ tasks[n].kind = "look" /\ tasks[n].j = j
           \/ tasks[n].kind = "trail" /\ tasks[n].j <= j}

\* The master has created every task of step k.
Created(k) == mpc.k > k \/ (mpc.k = k /\ mpc.ph = "clean")

\* C26: for every step k, one lookahead task per column k+1..min(k+L, nt-1)
\* and a trailing task, present exactly when k+1+L < nt, starting at column
\* k+1+L; every column k+1..nt-1 is updated by exactly one task of the
\* step; panel and lookahead tasks have priority 1, the trailing task 0.
C26_UpdateTasks ==
    /\ \A n \in DOMAIN tasks :
          /\ tasks[n].kind \in {"panel", "look"} => tasks[n].prio = 1
          /\ tasks[n].kind = "trail" =>
                /\ tasks[n].prio = 0
                /\ tasks[n].j = tasks[n].k + 1 + qp.la
                /\ tasks[n].j < qp.nt
          /\ tasks[n].kind = "look" =>
                /\ tasks[n].j >= tasks[n].k + 1
                /\ tasks[n].j <= Min2(tasks[n].k + qp.la, qp.nt - 1)
    /\ \A k \in 0..(A_min_mtnt - 1) :
          /\ \A j \in (k + 1)..(qp.nt - 1) : Cardinality(UpdatesOf(k, j)) <= 1
          /\ Created(k) =>
                /\ \A j \in (k + 1)..(qp.nt - 1) :
                      Cardinality(UpdatesOf(k, j)) = 1
                /\ (\E n \in DOMAIN tasks : IsTrail(n, k)) <=>
                      (k + 1 + qp.la < qp.nt)

C26_Witness ==
    /\ qp.la = 1
    /\ qp.nt = 4
    /\ Created(1)
    /\ \E n \in DOMAIN tasks : IsTrail(n, 0) /\ tasks[n].prio = 0
    /\ \E n \in DOMAIN tasks :
          tasks[n].kind = "look" /\ tasks[n].k = 1 /\ tasks[n].prio = 1
    /\ ~\E n \in DOMAIN tasks : IsTrail(n, 2)

\* C27: every queue index passed to unmqr lies in [0, 3 + lookahead), the
\* lookahead task of column j uses j-k+1 and the trailing task L+2, and the
\* update tasks of one step use pairwise distinct indices.
C27_QueueIndices ==
    \A n \in DOMAIN tasks :
        tasks[n].kind \in {"look", "trail"} =>
            /\ tasks[n].queue >= 0
            /\ tasks[n].queue < num_queues
            /\ tasks[n].kind = "look" =>
                  tasks[n].queue = tasks[n].j - tasks[n].k + 1
            /\ tasks[n].kind = "trail" => tasks[n].queue = qp.la + 2
            /\ \A m \in DOMAIN tasks :
                  (/\ m # n
                   /\ tasks[m].kind \in {"look", "trail"}
                   /\ tasks[m].k = tasks[n].k) =>
                        tasks[m].queue # tasks[n].queue

C27_Witness ==
    /\ qp.la = 1
    /\ \E n \in DOMAIN tasks : \E m \in DOMAIN tasks :
          /\ tasks[n].kind = "look" /\ tasks[n].queue = 2
          /\ IsTrail(m, tasks[n].k) /\ tasks[m].queue = 3

\* ------------------------------------------------------------------------
\* internal::ttmqr (internal_ttmqr.cc): the reduction tree over the ranks of
\* a panel column, applied to the tiles of C.
\* ------------------------------------------------------------------------
TtMaxRanks == 8      \* process rows and tile rows of the tree walked alone
TtMaxP == 4          \* process rows of the distributed call
TtMaxQ == 2          \* process columns of the distributed call
TtMaxKend == 2       \* tiles of C per row (Left) or column (Right)

TtSides == {"Left", "Right"}
TtOps == {"NoTrans", "Trans", "ConjTrans"}

\* A.tileRank(i, 0): A is a view of one block column starting at tile row
\* off of a matrix distributed 2D block-cyclic, ranks numbered column-major.
A_tileRank(i) == (tq.off + i) % tq.p

\* C.tileRank(i, j): with Side::Left the rows of C are the rows of A, with
\* Side::Right the columns of C are the rows of A.
C_tileRank(i, j) ==
    IF tq.side = "Left"
    THEN ((tq.off + i) % tq.p) + (j % tq.q) * tq.p
    ELSE (i % tq.p) + ((tq.off + j) % tq.q) * tq.p

\* A.getRanks(&ranks_set)
ranks_set == {A_tileRank(i) : i \in 0..(tq.mt - 1)}

\* Each rank's first (top-most) row in this column of A, in the order the
\* set is iterated (by rank).
first_row(r) == MinOf({i \in 0..(tq.mt - 1) : A_tileRank(i) = r})

\* rank_indices after the loop over ranks_set: one pair {rank, first row}
\* per rank, in the order the set is iterated (by rank).
RankPairs == {<<r, first_row(r)>> : r \in ranks_set}

rank_indices_unsorted ==
    [x \in 1..Cardinality(RankPairs) |->
        CHOOSE a \in RankPairs :
            Cardinality({b \in RankPairs : b[1] < a[1]}) = x - 1]

\* std::sort(rank_indices.begin(), rank_indices.end(), compareSecond)
compareSecond(a, b) == a[2] < b[2]

rank_indices ==
    CHOOSE f \in
        {[x \in 1..Cardinality(P) |->
            CHOOSE a \in P :
                Cardinality({b \in P : compareSecond(b, a)}) = x - 1]
            : P \in {RankPairs}} : TRUE

\* rank_indices[ index ].second, index counted from 0
rank_ind(index) == rank_indices[index + 1][2]

nranks == Len(rank_indices)

\* int( ceil( log2( nranks ) ) ) and int( floor( log2( nranks ) ) )
RECURSIVE floor_log2(_)
floor_log2(n) == IF n <= 1 THEN 0 ELSE 1 + floor_log2(n \div 2)

RECURSIVE ceil_log2(_)
ceil_log2(n) == IF n <= 1 THEN 0 ELSE 1 + ceil_log2((n + 1) \div 2)

nlevels_floor == floor_log2(nranks)

nlevels == ceil_log2(nranks)

\* bool descend = (side == Side::Left) == (op == Op::NoTrans)
descend_never == FALSE

descend == (tq.side = "Left") = (tq.op = "NoTrans")

\* step = pow(2, nlevels - 1), converted to int (0 for nlevels = 0); or 1
first_step ==
    IF descend THEN (IF nlevels = 0 THEN 0 ELSE Pow(2, nlevels - 1)) ELSE 1

\* step /= 2 or step *= 2
next_step(step) == IF descend THEN step \div 2 ELSE step * 2

\* index % (2*step) == 0: the upper partner of a pair
IsUpper(index, step) == index % (2 * step) = 0

\* index + step < nranks: the pair exists
HasLower(index, step) == index + step < nranks

\* The loop nest, walked without the communication: which pairs each
\* level makes, seen from the upper partner (pairs) and from the lower
\* partner (srcs).
TtLoopInit ==
    /\ \E side \in TtSides, op \in TtOps : \E mt \in 1..TtMaxRanks :
       \E p \in 1..TtMaxRanks : \E off \in {0, p - 1} :
          tq = [side |-> side, op |-> op, mt |-> mt, kend |-> 1, p |-> p,
                q |-> 1, off |-> off, tag |-> 0, start |-> "Shared"]
    /\ tl = [level |-> 0, step |-> first_step, index |-> 0, steps |-> << >>,
             pairs |-> << >>, srcs |-> << >>, ph |-> "loop"]
    /\ trk = << >> /\ tC = << >> /\ tch = << >> /\ tlog = << >>
    /\ CohIdle /\ ConcIdle /\ QrIdle /\ BcIdle /\ PrIdle /\ HrIdle
    /\ SetIdle /\ NuIdle /\ PbIdle /\ PvIdle /\ DkIdle /\ BaIdle

\* for (int level = 0; level < nlevels; ++level): entering a level
TtLoopLevel ==
    /\ tl.ph = "loop" /\ tl.level < nlevels
    /\ tl' = [tl EXCEPT !.ph = "index", !.index = 0,
                        !.steps = Append(@, tl.step)]
    /\ UNCHANGED <<tq, trk, tC, tch, tlog>>
    /\ UNCHANGED notTt

\* for (int index = 0; index < nranks; index += step): one index
TtLoopIndex ==
    /\ tl.ph = "index" /\ tl.index < nranks
    /\ tl' = [tl EXCEPT
                !.index = @ + tl.step,
                !.pairs = IF IsUpper(tl.index, tl.step)
                             /\ HasLower(tl.index, tl.step)
                          THEN Append(@, <<tl.level, tl.index,
                                           tl.index + tl.step>>)
                          ELSE @,
                !.srcs = IF ~IsUpper(tl.index, tl.step)
                         THEN Append(@, <<tl.level, tl.index - tl.step,
                                          tl.index>>)
                         ELSE @]
    /\ UNCHANGED <<tq, trk, tC, tch, tlog>>
    /\ UNCHANGED notTt

\* the end of a level: step /= 2 or step *= 2
TtLoopStep ==
    /\ tl.ph = "index" /\ tl.index >= nranks
    /\ tl' = [tl EXCEPT !.ph = "loop", !.level = @ + 1,
                        !.step = next_step(@)]
    /\ UNCHANGED <<tq, trk, tC, tch, tlog>>
    /\ UNCHANGED notTt

TtLoopReturn ==
    /\ tl.ph = "loop" /\ tl.level >= nlevels
    /\ tl' = [tl EXCEPT !.ph = "returned"]
    /\ UNCHANGED <<tq, trk, tC, tch, tlog>>
    /\ UNCHANGED notTt

TtLoopNext == TtLoopLevel \/ TtLoopIndex \/ TtLoopStep \/ TtLoopReturn

SpecTtLoop == TtLoopInit /\ [][TtLoopNext]_vars

\* The strides 1, 2, 4, ... of a tree over n leaves, and their reverse.
RECURSIVE Strides(_, _)
Strides(s, n) == IF s >= n THEN << >> ELSE <<s>> \o Strides(2 * s, n)

Reverse(q) == [x \in 1..Len(q) |-> q[Len(q) + 1 - x]]

\* The pairs of the level with stride s.
PairsOf(s, n) ==
    {<<x, x + s>> : x \in {y \in 0..(n - 1) : y % (2 * s) = 0 /\ y + s < n}}

\* The pairs logged at level lv.
LoggedAt(log, lv) ==
    {<<log[x][2], log[x][3]>> : x \in {y \in DOMAIN log : log[y][1] = lv}}

\* C28: the rank list is sorted by first tile row; ceil(log2 n) levels;
\* the level with stride s pairs x (a multiple of 2s) with x+s when
\* x+s < n, no index in two pairs of a level; strides 1,2,4,.. for
\* Left/ConjTrans and Right/NoTrans, the reverse for Left/NoTrans and
\* Right/ConjTrans; the pairs of n = 8.
C28_ReductionTree ==
    /\ \A x \in 1..(nranks - 1) : rank_indices[x][2] < rank_indices[x + 1][2]
    /\ \A x \in 1..nranks : A_tileRank(rank_indices[x][2]) = rank_indices[x][1]
    /\ tl.ph = "returned" =>
        /\ Len(tl.steps) = Len(Strides(1, nranks))
        /\ Pow(2, Len(tl.steps)) >= nranks
        /\ Len(tl.steps) > 0 => Pow(2, Len(tl.steps) - 1) < nranks
        /\ (\/ tq.side = "Left" /\ tq.op = "ConjTrans"
            \/ tq.side = "Right" /\ tq.op = "NoTrans") =>
                tl.steps = Strides(1, nranks)
        /\ (\/ tq.side = "Left" /\ tq.op = "NoTrans"
            \/ tq.side = "Right" /\ tq.op = "ConjTrans") =>
                tl.steps = Reverse(Strides(1, nranks))
        /\ \A lv \in 1..Len(tl.steps) :
              /\ LoggedAt(tl.pairs, lv - 1) = PairsOf(tl.steps[lv], nranks)
              /\ LoggedAt(tl.srcs, lv - 1) = PairsOf(tl.steps[lv], nranks)
              /\ \A a \in DOMAIN tl.pairs : \A b \in DOMAIN tl.pairs :
                    (/\ a # b /\ tl.pairs[a][1] = lv - 1
                     /\ tl.pairs[b][1] = lv - 1) =>
                        {tl.pairs[a][2], tl.pairs[a][3]}
                            \cap {tl.pairs[b][2], tl.pairs[b][3]} = {}
        /\ (nranks = 8 /\ ~descend) =>
              tl.pairs = <<<<0, 0, 1>>, <<0, 2, 3>>, <<0, 4, 5>>, <<0, 6, 7>>,
                           <<1, 0, 2>>, <<1, 4, 6>>, <<2, 0, 4>>>>
        /\ (nranks = 8 /\ descend) =>
              tl.pairs = <<<<0, 0, 4>>, <<1, 0, 2>>, <<1, 4, 6>>,
                           <<2, 0, 1>>, <<2, 2, 3>>, <<2, 4, 5>>, <<2, 6, 7>>>>

C28_Witness ==
    /\ tl.ph = "returned" /\ nranks = 8 /\ tq.off = 7
    /\ tq.side = "Right" /\ tq.op = "ConjTrans"
    /\ Len(tl.pairs) = 7

\* ------------------------------------------------------------------------
\* The ttmqr call on every rank of the p x q grid, with the tile moves.
\* The content of a tile is the sequence of pairs whose tpmqrt modified it.
\* ------------------------------------------------------------------------
TtRanks == 0..(tq.p * tq.q - 1)

\* The tile of C of tree index `index` and loop variable k.
Cij(index, k) ==
    IF tq.side = "Left" THEN <<rank_ind(index), k>> ELSE <<k, rank_ind(index)>>

\* C.tileIsLocal(i, j) on rank r
C_tileIsLocal(r, t) == C_tileRank(t[1], t[2]) = r

\* The tiles of C the tree works on.
TtTiles == {Cij(x, k) : x \in 0..(nranks - 1), k \in 0..(tq.kend - 1)}

\* The value of step at each level.
step_at[l \in 0..3] == IF l = 0 THEN first_step ELSE next_step(step_at[l - 1])

\* One iteration of one of the three loops over k (the tasks of the second
\* loop together): the tile C(i, j), the partner's tile, the partner's rank
\* and the pair of tree indices.
TtIteration(l, x, lp, k) ==
    CHOOSE it \in
        {[level |-> l, step |-> step, index |-> x, loop |-> lp, k |-> k,
          upper |-> IsUpper(x, step),
          lower |-> HasLower(x, step),
          tile |-> Cij(x, k),
          other |-> Cij(y, k),
          peer |-> C_tileRank(Cij(y, k)[1], Cij(y, k)[2]),
          pair |-> IF IsUpper(x, step) THEN <<x, y>> ELSE <<y, x>>,
          tiles |-> [kk \in 0..(tq.kend - 1) |-> Cij(x, kk)]]
            : step \in {step_at[l]},
              y \in {IF ~IsUpper(x, step_at[l]) THEN x - step_at[l]
                     ELSE IF HasLower(x, step_at[l]) THEN x + step_at[l]
                     ELSE x}} : TRUE

\* The iterations of the loop nest on any rank.
TtIterations ==
    UNION {UNION {UNION {
        {TtIteration(l, x, lp, k)
            : k \in IF lp = 2 THEN {0} ELSE 0..(tq.kend - 1)}
        : lp \in 1..3}
        : x \in {y \in 0..(nranks - 1) : y % step_at[l] = 0}}
        : l \in 0..(nlevels - 1)}

\* The tiles rank r updates in the second loop of an iteration.
PendOf(r, it) ==
    IF it.loop = 2 /\ ~it.upper
    THEN {k \in DOMAIN it.tiles : C_tileIsLocal(r, it.tiles[k])}
    ELSE {}

\* Rank r has a tile to send, receive or update in this iteration.
ActsAt(r, it) ==
    IF it.loop = 2 THEN PendOf(r, it) # {}
    ELSE /\ C_tileIsLocal(r, it.tile)
         /\ it.upper => it.lower

\* The order in which the loop nest reaches the iterations.
TtOrd(it) ==
    ((it.level * TtMaxRanks + it.index) * 3 + it.loop) * TtMaxKend + it.k

\* The iterations in which rank r does something, in the order of the
\* loop nest; those in which it has nothing to do are passed over.
InLoopOrder(all) ==
    [n \in 1..Cardinality(all) |->
        CHOOSE x \in all :
            Cardinality({y \in all : TtOrd(y) < TtOrd(x)}) = n - 1]

TtPlan ==
    CHOOSE f \in
        {[r \in TtRanks |-> InLoopOrder({it \in its : ActsAt(r, it)})]
            : its \in {TtIterations}} : TRUE

\* The position of rank r after n iterations.
TtAt(plan, r, n) ==
    IF n > Len(plan[r]) THEN [n |-> n, pend |-> {}, ph |-> "returned"]
    ELSE [n |-> n, pend |-> PendOf(r, plan[r][n]), ph |-> "run"]

TtAfter(r) == TtAt(tl, r, trk[r].n + 1)

\* Rank r is in an iteration of loop lp.
TtIn(r, lp) ==
    /\ trk[r].ph = "run"
    /\ tl[r][trk[r].n].loop = lp

\* A tile in a message: tag, content, and which tile it is.
TtMessage(tag, t, d, back) == [tag |-> tag, tile |-> t, d |-> d, back |-> back]

\* The tag the updated tile is sent back with.
BackTagOther == tq.tag + 1

BackTag == tq.tag

\* The entry of a local tile of C before the call.
TtStartEntry(start) ==
    CASE start = "Shared" -> InsertOrigin(<< >>)
      [] start = "Modified" -> InvalidateOthers(InsertOrigin(<< >>), HostNum)
      [] start = "Device" -> GetForReadWrite(InsertOrigin(<< >>), 0)

\* tpmqrt writes both tiles in place.
tpmqrt(e, u) == [e EXCEPT !.d[HostNum] = Append(@, u)]

\* The acquire of C(i, j) before it is sent.
SendAcquireRead(e) == GetForReading(e, HostNum)

SendAcquire(e) == GetForWriting(e, HostNum)

TtInit ==
    /\ \E side \in TtSides, op \in {"NoTrans", "ConjTrans"} :
       \E mt \in 1..TtMaxP, kend \in 1..TtMaxKend :
       \E p \in 1..TtMaxP, q \in 1..TtMaxQ : \E off \in {0, 1} :
       \E start \in {"Shared", "Device"}, buffered \in BOOLEAN :
          /\ off < p
          /\ side = "Right" => Min2(p, mt) <= q
          /\ tq = [side |-> side, op |-> op, mt |-> mt, kend |-> kend,
                   p |-> p, q |-> q, off |-> off, tag |-> 0,
                   start |-> start, buffered |-> buffered]
    /\ tl = TtPlan
    /\ trk = [r \in TtRanks |-> TtAt(TtPlan, r, 1)]
    /\ tC = [r \in TtRanks |->
               [t \in TtTiles |-> IF C_tileIsLocal(r, t)
                                  THEN TtStartEntry(tq.start)
                                  ELSE EmptyEntry]]
    /\ tch = [c \in TtRanks \X TtRanks |-> << >>]
    /\ tlog = [sent |-> {}, rcvd |-> {}, asserts |-> {}]
    /\ CohIdle /\ ConcIdle /\ QrIdle /\ BcIdle /\ PrIdle /\ HrIdle
    /\ SetIdle /\ NuIdle /\ PbIdle /\ PvIdle /\ DkIdle /\ BaIdle

\* A rank blocked in a send goes on when the message is taken, or at once
\* when MPI buffers it.
TtSent(r) ==
    IF tq.buffered THEN TtAfter(r) ELSE [trk[r] EXCEPT !.ph = "sending"]

\* Loop 1, upper partner: tileGetForWriting(i, j), tileSend(i, j, dst, tag).
TtSend(r) ==
    /\ TtIn(r, 1)
    /\ LET pos == tl[r][trk[r].n]
           e == SendAcquire(tC[r][pos.tile])
           m == TtMessage(tq.tag, pos.tile, e.d[HostNum], FALSE)
       IN  /\ pos.upper
           /\ tC' = [tC EXCEPT ![r][pos.tile] = e]
           /\ tch' = [tch EXCEPT ![<<r, pos.peer>>] = Append(@, m)]
           /\ trk' = [trk EXCEPT ![r] = TtSent(r)]
           /\ tlog' = [tlog EXCEPT
                         !.sent = @ \cup {<<r, pos.peer, m, pos.level>>}]
    /\ UNCHANGED <<tq, tl>>
    /\ UNCHANGED notTt

\* The first message from src with the tag.
TtMatch(src, r, tag) ==
    {x \in DOMAIN tch[<<src, r>>] :
        /\ tch[<<src, r>>][x].tag = tag
        /\ \A y \in 1..(x - 1) : tch[<<src, r>>][y].tag # tag}

\* The channel without its x-th message.
TtTake(ch, x) == [y \in 1..(Len(ch) - 1) |-> IF y < x THEN ch[y] ELSE ch[y + 1]]

\* The receiver goes on, and so does the sender if it was blocked on the
\* message taken.
TtRelease(src, r) ==
    [trk EXCEPT ![r] = TtAfter(r),
                ![src] = IF trk[src].ph = "sending" THEN TtAfter(src) ELSE @]

\* Loop 1, lower partner: tileRecv(i1, j1, src, layout, tag).
TtRecv(r) ==
    /\ TtIn(r, 1)
    /\ LET pos == tl[r][trk[r].n] IN
       /\ ~pos.upper
       /\ \E x \in TtMatch(pos.peer, r, tq.tag) :
             LET m == tch[<<pos.peer, r>>][x] IN
             /\ tC' = [tC EXCEPT ![r][pos.other] = RecvTile(@, m.d)]
             /\ tch' = [tch EXCEPT ![<<pos.peer, r>>] = TtTake(@, x)]
             /\ tlog' = [tlog EXCEPT
                           !.rcvd = @ \cup {<<pos.peer, r, m, pos.level,
                                              pos.other, FALSE>>}]
       /\ trk' = TtRelease(pos.peer, r)
    /\ UNCHANGED <<tq, tl>>
    /\ UNCHANGED notTt

\* Loop 2, lower partner: one task of the taskgroup, tileGetForWriting(i, j)
\* and tpmqrt on C(i1, j1) and C(i, j).
TtTask(r, k) ==
    /\ TtIn(r, 2)
    /\ k \in trk[r].pend
    /\ LET pos == tl[r][trk[r].n]
           t == pos.tiles[k]
           t1 == IF tq.side = "Left" THEN <<pos.other[1], k>>
                 ELSE <<k, pos.other[2]>>
       IN  tC' = [tC EXCEPT
                    ![r][t] = tpmqrt(GetForWriting(@, HostNum), pos.pair),
                    ![r][t1] = tpmqrt(@, pos.pair)]
    /\ trk' = [trk EXCEPT ![r] = IF trk[r].pend = {k} THEN TtAfter(r)
                                 ELSE [@ EXCEPT !.pend = @ \ {k}]]
    /\ UNCHANGED <<tq, tl, tch, tlog>>
    /\ UNCHANGED notTt

\* Loop 3, upper partner: the assertion, then tileRecv(i, j, dst, layout,
\* tag).  A failed assertion aborts the process.
TtRecvBack(r) ==
    /\ TtIn(r, 3)
    /\ LET pos == tl[r][trk[r].n]
           ok == tC[r][pos.tile].s[HostNum] = "Modified"
       IN  /\ pos.upper
           /\ IF ~ok
              THEN /\ trk' = [trk EXCEPT ![r].ph = "aborted"]
                   /\ tlog' = [tlog EXCEPT
                                 !.asserts = @ \cup {<<r, pos.tile, pos.level,
                                                      FALSE>>}]
                   /\ UNCHANGED <<tC, tch>>
              ELSE \E x \in TtMatch(pos.peer, r, tq.tag) :
                     LET m == tch[<<pos.peer, r>>][x] IN
                     /\ tC' = [tC EXCEPT ![r][pos.tile] = RecvTile(@, m.d)]
                     /\ tch' = [tch EXCEPT ![<<pos.peer, r>>] = TtTake(@, x)]
                     /\ tlog' = [tlog EXCEPT
                                   !.rcvd = @ \cup {<<pos.peer, r, m,
                                                      pos.level, pos.tile,
                                                      TRUE>>},
                                   !.asserts = @ \cup {<<r, pos.tile,
                                                         pos.level, TRUE>>}]
                     /\ trk' = TtRelease(pos.peer, r)
    /\ UNCHANGED <<tq, tl>>
    /\ UNCHANGED notTt

\* Loop 3, lower partner: tileSend(i1, j1, src, tag), tileTick(i1, j1).
\* The received copy is not used after the tick and is dropped here.
TtSendBack(r) ==
    /\ TtIn(r, 3)
    /\ LET pos == tl[r][trk[r].n]
           m == TtMessage(BackTag, pos.other, tC[r][pos.other].d[HostNum],
                          TRUE)
       IN  /\ ~pos.upper
           /\ CanSend(tC[r][pos.other])
           /\ tch' = [tch EXCEPT ![<<r, pos.peer>>] = Append(@, m)]
           /\ tC' = [tC EXCEPT ![r][pos.other] = EmptyEntry]
           /\ trk' = [trk EXCEPT ![r] = TtSent(r)]
           /\ tlog' = [tlog EXCEPT
                         !.sent = @ \cup {<<r, pos.peer, m, pos.level>>}]
    /\ UNCHANGED <<tq, tl>>
    /\ UNCHANGED notTt

TtNext ==
    \E r \in TtRanks :
        \/ TtSend(r)
        \/ TtRecv(r)
        \/ \E k \in 0..(TtMaxKend - 1) : TtTask(r, k)
        \/ TtRecvBack(r)
        \/ TtSendBack(r)

SpecTtmqr == TtInit /\ [][TtNext]_vars

\* Every rank runs whenever it can: a process is not suspended for ever.
SpecTtmqrFair == SpecTtmqr /\ WF_vars(TtNext)

\* The messages in flight.
TtInFlight == {c \in DOMAIN tch : tch[c] # << >>}

RECURSIVE TtCount(_)
TtCount(S) ==
    IF S = {} THEN 0
    ELSE LET c == CHOOSE x \in S : TRUE IN Len(tch[c]) + TtCount(S \ {c})

\* The strides of the levels in the order the claim gives them.
ExpectedSteps ==
    IF \/ tq.side = "Left" /\ tq.op = "NoTrans"
       \/ tq.side = "Right" /\ tq.op = "ConjTrans"
    THEN Reverse(Strides(1, nranks)) ELSE Strides(1, nranks)

\* The pairs tree index x takes part in, level after level.
RECURSIVE ExpectedHistory(_, _)
ExpectedHistory(x, lv) ==
    IF lv > Len(ExpectedSteps) THEN << >>
    ELSE LET mine == {pr \in PairsOf(ExpectedSteps[lv], nranks) :
                         x \in {pr[1], pr[2]}}
         IN  (IF mine = {} THEN << >> ELSE <<CHOOSE pr \in mine : TRUE>>)
                 \o ExpectedHistory(x, lv + 1)

TtReturned == \A r \in TtRanks : trk[r].ph = "returned"

\* Every receive took a message its partner sent with the tag for the tile
\* the receiver expected; every message sent is received or in flight; a
\* tile received back was sent up by the receiver at the same level and
\* carries the update of the pair.
TtMatched ==
    /\ \A rc \in tlog.rcvd :
          /\ <<rc[1], rc[2], rc[3], rc[4]>> \in tlog.sent
          /\ rc[3].tag = tq.tag
          /\ rc[3].tile = rc[5]
          /\ rc[3].back = rc[6]
          /\ rc[1] # rc[2]
          /\ rc[6] =>
                /\ \E sn \in tlog.sent :
                      /\ sn[1] = rc[2] /\ sn[2] = rc[1] /\ sn[4] = rc[4]
                      /\ sn[3].tile = rc[5] /\ ~sn[3].back
                      /\ rc[3].d = Append(sn[3].d, rc[3].d[Len(rc[3].d)])
                /\ rc[3].d # << >>
    /\ Cardinality(tlog.sent) = Cardinality(tlog.rcvd) + TtCount(TtInFlight)
    /\ \A r \in TtRanks : trk[r].ph # "aborted"

\* The call has returned on every rank, no message is left, and every tile
\* of the tree rows holds the updates of its pairs, in the order of the
\* levels; with one rank nothing was sent and C is as it was.
TtComplete ==
    /\ TtReturned
    /\ TtInFlight = {}
    /\ \A x \in 0..(nranks - 1), k \in 0..(tq.kend - 1) :
          LET t == Cij(x, k)
              e == tC[C_tileRank(t[1], t[2])][t]
          IN  /\ ValidLocs(e) # {}
              /\ \A l \in ValidLocs(e) : e.d[l] = ExpectedHistory(x, 1)
              /\ ExpectedHistory(x, 1) # << >> => IsValid(e, HostNum)
    /\ nranks = 1 =>
          /\ tlog.sent = {}
          /\ \A r \in TtRanks, t \in TtTiles :
                tC[r][t] = IF C_tileIsLocal(r, t) THEN TtStartEntry(tq.start)
                           ELSE EmptyEntry

C30_AssertModified ==
    /\ \A r \in TtRanks :
          (TtIn(r, 3) /\ tl[r][trk[r].n].upper) =>
              tC[r][tl[r][trk[r].n].tile].s[HostNum] = "Modified"
    /\ \A a \in tlog.asserts : a[4]
    /\ \A r \in TtRanks : trk[r].ph # "aborted"

C30_Witness ==
    /\ tq.start = "Device"
    /\ \E r \in TtRanks :
          /\ TtIn(r, 3) /\ tl[r][trk[r].n].upper
          /\ tl[r][trk[r].n].level = 1
          /\ \E a \in tlog.asserts : a[1] = r /\ a[3] = 0

\* ------------------------------------------------------------------------
\* permuteRows on several ranks: the two sides of the remote swaps.
\* ------------------------------------------------------------------------
\* The remote swaps issued so far by the owner of tile (0, j) and by the
\* owner of the pivot tile.
RootSwaps == {e \in plog : e.root}
PivotSwaps == {e \in plog : ~e.root}

\* The two swaps are the two sides of one exchange.
SameSwap(a, b) ==
    /\ <<a.c, a.j, a.i>> = <<b.c, b.j, b.i>>
    /\ a.peer = b.r /\ b.peer = a.r
    /\ a.tag = b.tag

\* A swap is issued by the owner of (0, j) with the pivot's owner, or the
\* other way round, never twice by one side; two swaps of the same two
\* ranks are issued in the same order by both.
PermMatched ==
    /\ \A a \in plog :
          /\ a.r # a.peer
          /\ a.tag = pp.tag
          /\ a.r = IF a.root THEN tileRank(0, a.j)
                   ELSE tileRank(pp.pivot[a.i].t, a.j)
          /\ a.peer = IF a.root THEN tileRank(pp.pivot[a.i].t, a.j)
                      ELSE tileRank(0, a.j)
          /\ \A b \in plog : (SameSwap(a, b) /\ a.root = b.root) => a = b
    /\ \A a \in RootSwaps : \A b \in PivotSwaps :
          SameSwap(a, b) =>
              \A a2 \in plog : \A b2 \in plog :
                  (/\ a2.r = a.r /\ b2.r = b.r /\ SameSwap(a2, b2)
                   /\ a2.n < a.n) => b2.n < b.n
    /\ \A r \in PermRanks :
          (ppc[r].ph = "wait" /\ pch[<<Peer(r), r>>] # << >>) =>
              <<Head(pch[<<Peer(r), r>>]).c, Head(pch[<<Peer(r), r>>]).j,
                Head(pch[<<Peer(r), r>>]).i>> = <<ppc[r].c, ppc[r].j, CurI(r)>>

\* All ranks have completed, no message is left and every remote swap of
\* one side has exactly one matching swap of the other side.
PermComplete ==
    /\ PermDone
    /\ \A e \in DOMAIN pch : pch[e] = << >>
    /\ \A a \in RootSwaps :
          Cardinality({b \in PivotSwaps : SameSwap(a, b)}) = 1
    /\ \A b \in PivotSwaps :
          Cardinality({a \in RootSwaps : SameSwap(a, b)}) = 1

\* C31: every remote swap of the owner of tile (0,j) is matched by exactly
\* one remote swap of the pivot's owner for the same (j,i), both sides
\* issue their swaps in the same order, and all ranks complete with no
\* message left, all swaps carrying one tag.
C31_SwapsMatched == [](PermMatched) /\ <>[](PermComplete)

C31_Witness ==
    /\ PermDone
    /\ pp.p = 2 /\ pp.q = 2
    /\ Len(pp.calls) = 2
    /\ \E a \in RootSwaps : \E b \in RootSwaps :
          a.r = b.r /\ a.peer = b.peer /\ a.n < b.n /\ a.tag = b.tag
    /\ \E a \in RootSwaps : \E b \in RootSwaps : a.r # b.r

\* ------------------------------------------------------------------------
\* permuteRowsCols on many ranks and on one rank
\* ------------------------------------------------------------------------
SpecHermFair == SpecHerm /\ WF_vars(HermNext)

\* One call of swapRow, swapElement or the conjugation of the crossing
\* point on a rank that owns both tiles.
HermCallLocal(m, s) ==
    IF s.kind = "conj" THEN lacgv(m, s.v1, 1)
    ELSE IF s.v1 = << >> THEN m
    ELSE swapLocalRow(IF s.cj THEN lacgv(lacgv(m, s.v1, 1), s.v2, 1)
                      ELSE m,
                      s.v1, s.v2, 1)

\* The calls of the run from call k of pass x on, made by one rank that
\* owns all tiles.
RECURSIVE HermSerial(_, _, _)
HermSerial(from, x, k) ==
    LET m == CHOOSE c \in {from} : TRUE
    IN  IF x >= HermSteps THEN m
        ELSE IF k > Len(SwapsAt(x)) THEN HermSerial(m, x + 1, 1)
        ELSE HermSerial(HermCallLocal(m, SwapsAt(x)[k]), x, k + 1)

\* The calls of the run that exchange a non-empty vector.
HermSwapCalls ==
    {c \in (0..(HermSteps - 1)) \X (1..(3 * HermNt)) :
        /\ c[2] <= Len(SwapsAt(c[1]))
        /\ SwapsAt(c[1])[c[2]].kind = "swap"
        /\ SwapsAt(c[1])[c[2]].v1 # << >>}
CallAt(c) == SwapsAt(c[1])[c[2]]
Before(a, b) == a.x < b.x \/ (a.x = b.x /\ a.k < b.k)

\* What holds of the remote calls and the conjugations at every moment.
HermMatched ==
    /\ \A a \in hlog :
          /\ <<a.x, a.k>> \in HermSwapCalls
          /\ a.r # a.peer
          /\ <<a.r, a.peer>> \in {<<CallAt(<<a.x, a.k>>).r1,
                                    CallAt(<<a.x, a.k>>).r2>>,
                                  <<CallAt(<<a.x, a.k>>).r2,
                                    CallAt(<<a.x, a.k>>).r1>>}
          /\ a.tag = CallAt(<<a.x, a.k>>).tag
    /\ \A a \in hlog : \A b \in hlog :
          a.r = b.r =>
              /\ (a.x = b.x /\ a.k = b.k) => a = b
              /\ Before(a, b) <=> a.n < b.n
    /\ \A e \in DOMAIN hch :
          /\ Len(hch[e]) <= 2
          /\ \A i \in 1..Len(hch[e]) : \A j \in 1..Len(hch[e]) :
                i < j => Before(hch[e][i], hch[e][j])
    /\ \A r \in HermRanks :
          (hpc[r].ph = "wait" /\ hch[<<HermPeer(r), r>>] # << >>) =>
              LET h == Head(hch[<<HermPeer(r), r>>]) IN
              /\ h.tag = CurSwap(r).tag
              /\ h.x = hpc[r].x /\ h.k = hpc[r].k
    /\ \A e \in hcj :
          /\ e.n = 0
          /\ <<e.x, e.k>> \in HermSwapCalls
          /\ CallAt(<<e.x, e.k>>).op1 # CallAt(<<e.x, e.k>>).op2
          /\ \/ e.v = CallAt(<<e.x, e.k>>).v1 /\ e.r = CallAt(<<e.x, e.k>>).r1
             \/ e.v = CallAt(<<e.x, e.k>>).v2 /\ e.r = CallAt(<<e.x, e.k>>).r2

\* What holds once every rank has returned.
HermComplete ==
    /\ HermDone
    /\ \A e \in DOMAIN hch : hch[e] = << >>
    /\ \A c \in HermSwapCalls :
          LET s == CallAt(c) IN
          /\ s.r1 # s.r2 =>
                \A r \in {s.r1, s.r2} :
                    Cardinality({a \in hlog : /\ <<a.x, a.k>> = c
                                              /\ a.r = r}) = 1
          /\ s.r1 = s.r2 => ~ \E a \in hlog : <<a.x, a.k>> = c
          /\ s.op1 # s.op2 =>
                \A v \in {s.v1, s.v2} :
                    Cardinality({e \in hcj : /\ <<e.x, e.k>> = c
                                             /\ e.v = v}) = 1
          /\ s.op1 = s.op2 => ~ \E e \in hcj : <<e.x, e.k>> = c
    /\ hm = HermSerial(HermOriginal, 0, 1)

\* C32: on every process grid permuteRowsCols returns on all ranks and
\* leaves the matrix that one rank owning all tiles leaves; every remote
\* swapRow / swapElement call is entered once by each of the two owners,
\* with the same tag and in the same order on both, and when op1 # op2
\* each of the two vectors is conjugated exactly once, by its owner.
C32_SameAsOneRank == [](HermMatched) /\ <>[](HermComplete)

\* A run on a 2 x 2 grid returned after two remote calls between the same
\* two ranks, a remote call and a local call with op1 # op2.
C32_Witness ==
    /\ HermDone
    /\ hp.p = 2 /\ hp.q = 2
    /\ \E a \in hlog : \E b \in hlog :
          a.r = b.r /\ a.peer = b.peer /\ a.n < b.n
    /\ \E a \in hlog :
          CallAt(<<a.x, a.k>>).op1 # CallAt(<<a.x, a.k>>).op2
    /\ \E e \in hcj : CallAt(<<e.x, e.k>>).r1 = CallAt(<<e.x, e.k>>).r2
    /\ hm = HermSerial(HermOriginal, 0, 1)
    /\ hm # HermOriginal
\* Pivot i1 exchanges row i1 with another row.
Effective(i1) == PivotNotOnDiagonal(i1, hp.pivot[i1].t, hp.pivot[i1].o)

\* C33: permuteRowsCols(Forward, A, P) followed by
\* permuteRowsCols(Backward, A, P) restores every stored element of the
\* lower triangle of A to its original value, conjugations included, for
\* every pivot vector P.
C33_RoundTrip ==
    (HermDone /\ hp.dirs = <<"Forward", "Backward">>) =>
        LowerOf(hm) = LowerOf(HermOriginal)

\* A Forward and a Backward call returned on a 2 x 2 grid; every pivot
\* exchanged rows, both calls exchanged vectors between ranks and
\* conjugated vectors, and two pivots met in one row.
C33_Witness ==
    /\ HermDone
    /\ hp.dirs = <<"Forward", "Backward">>
    /\ hp.p = 2 /\ hp.q = 2
    /\ \A i \in 0..(HermNb - 1) : Effective(i)
    /\ \E i \in 0..(HermNb - 1) : \E j \in 0..(HermNb - 1) :
          i # j /\ hp.pivot[i] = hp.pivot[j]
    /\ \E a \in hlog : \E b \in hlog : a.x < HermNb /\ b.x >= HermNb
    /\ \E a \in hcj : \E b \in hcj : a.x < HermNb /\ b.x >= HermNb
    /\ LowerOf(hm) = LowerOf(HermOriginal)
\* ------------------------------------------------------------------------
\* makeParallelPivot (internal_swap.cc:30-74)
\* ------------------------------------------------------------------------
PvMaxK == 3
PvMt == 2
PvNb == 3

\* Pivot(tileIndex, elementOffset): a row of a block-column.
PvRows == [t : 0..(PvMt - 1), o : 0..(PvNb - 1)]
PvVectors == UNION {[0..(k - 1) -> PvRows] : k \in 1..PvMaxK}
PvSize == Cardinality(DOMAIN vp.pivot)
Pivot0(i) == [t |-> 0, o |-> i]

\* begin, end, inc of both loops.
PvBegin == IF vp.dir = "Forward" THEN 0 ELSE PvSize - 1
PvEnd == IF vp.dir = "Forward" THEN PvSize ELSE 0 - 1
PvInc == IF vp.dir = "Forward" THEN 1 ELSE 0 - 1

\* pivot[i] != Pivot(0, i)
PvSwaps(i) == vp.pivot[i] # Pivot0(i)

\* pivot_map[key] = value, inserting the key when it is absent.
PvPut(m, key, value) ==
    [k \in DOMAIN m \cup {key} |-> IF k = key THEN value ELSE m[k]]

\* std::swap(pivot_map[a], pivot_map[b])
PvSwapKept(m, a, b) == m

PvSwap(m, a, b) == [m EXCEPT ![a] = m[b], ![b] = m[a]]

PvInit ==
    /\ vp \in [dir : Directions, pivot : PvVectors]
    /\ vmap = << >>
    /\ vpc = [loop |-> "put", i |-> PvBegin]
    /\ CohIdle /\ ConcIdle /\ QrIdle /\ BcIdle /\ PrIdle /\ HrIdle /\ SetIdle /\ NuIdle /\ PbIdle /\ TtIdle /\ DkIdle /\ BaIdle

\* One pass of the loop that puts the participating rows in the map.
PvPutRows ==
    /\ vpc.loop = "put"
    /\ vpc.i # PvEnd
    /\ vmap' = IF PvSwaps(vpc.i)
               THEN PvPut(PvPut(vmap, Pivot0(vpc.i), Pivot0(vpc.i)),
                          vp.pivot[vpc.i], vp.pivot[vpc.i])
               ELSE vmap
    /\ vpc' = [vpc EXCEPT !.i = vpc.i + PvInc]
    /\ UNCHANGED vp
    /\ UNCHANGED notPv

\* The first loop ends, the second begins.
PvBeginSwaps ==
    /\ vpc.loop = "put"
    /\ vpc.i = PvEnd
    /\ vpc' = [loop |-> "swap", i |-> PvBegin]
    /\ UNCHANGED <<vp, vmap>>
    /\ UNCHANGED notPv

\* One pass of the loop that performs the pivoting in the map.
PvSwapRows ==
    /\ vpc.loop = "swap"
    /\ vpc.i # PvEnd
    /\ vmap' = IF PvSwaps(vpc.i)
               THEN PvSwap(vmap, vp.pivot[vpc.i], Pivot0(vpc.i))
               ELSE vmap
    /\ vpc' = [vpc EXCEPT !.i = vpc.i + PvInc]
    /\ UNCHANGED vp
    /\ UNCHANGED notPv

PvReturn ==
    /\ vpc.loop = "swap"
    /\ vpc.i = PvEnd
    /\ vpc' = [vpc EXCEPT !.loop = "done"]
    /\ UNCHANGED <<vp, vmap>>
    /\ UNCHANGED notPv

PvNext == PvPutRows \/ PvBeginSwaps \/ PvSwapRows \/ PvReturn

SpecPivot == PvInit /\ [][PvNext]_vars

\* --- the rows of a block-column, exchanged one swap after another ---
\* Each row holds the row it started as.
PvIdentity == [r \in PvRows |-> r]

\* The swaps row (0, i) <-> pivot[i] from the n-th pass of the loop on.
RECURSIVE PvSerial(_, _)
PvSerial(rows, n) ==
    IF n >= PvSize THEN rows
    ELSE LET i == IF vp.dir = "Forward" THEN n ELSE PvSize - 1 - n
         IN  PvSerial([rows EXCEPT ![Pivot0(i)] = rows[vp.pivot[i]],
                                   ![vp.pivot[i]] = rows[Pivot0(i)]],
                      n + 1)

\* Out-of-place permutation: row dst receives the row src = map[dst].
PvApply(rows, m) ==
    [r \in PvRows |-> IF r \in DOMAIN m THEN rows[m[r]] ELSE rows[r]]

\* The rows that take part in a swap.
PvParticipating ==
    {Pivot0(i) : i \in {j \in DOMAIN vp.pivot : PvSwaps(j)}} \cup
    {vp.pivot[i] : i \in {j \in DOMAIN vp.pivot : PvSwaps(j)}}

\* C34: makeParallelPivot(direction, pivot) returns a map whose keys are
\* the participating rows and whose values are a permutation of its keys;
\* giving every row dst the row src = map[dst] leaves the rows as the swaps
\* row (0, i) <-> pivot[i] leave them, made one after another in the given
\* direction; a row i with pivot[i] = (0, i) that takes part in no other
\* swap is absent from the map.
C34_ParallelPivot ==
    vpc.loop = "done" =>
        /\ DOMAIN vmap = PvParticipating
        /\ {vmap[k] : k \in DOMAIN vmap} = DOMAIN vmap
        /\ PvApply(PvIdentity, vmap) = PvSerial(PvIdentity, 0)
        /\ \A i \in DOMAIN vp.pivot :
              (/\ ~PvSwaps(i)
               /\ \A j \in DOMAIN vp.pivot : vp.pivot[j] # Pivot0(i))
              => Pivot0(i) \notin DOMAIN vmap

\* A Backward call returned a map that moves three rows in a cycle and
\* leaves out a row whose pivot is the row itself.
C34_Witness ==
    /\ vpc.loop = "done"
    /\ vp.dir = "Backward"
    /\ PvSize = 3
    /\ Cardinality(DOMAIN vmap) = 3
    /\ \A k \in DOMAIN vmap : vmap[k] # k
    /\ \E i \in DOMAIN vp.pivot : ~PvSwaps(i) /\ Pivot0(i) \notin DOMAIN vmap
    /\ PvApply(PvIdentity, vmap) = PvSerial(PvIdentity, 0)
\* ------------------------------------------------------------------------
\* The batch groups of set on devices (internal_tzset.cc:121-267)
\* ------------------------------------------------------------------------
\* The launches on the queue of a device.
GesetsOf(dev) ==
    {sev[dev].queue[k] : k \in 2..Len(sev[dev].queue)}
LaunchTiles(dev, l) ==
    {SliceOf(sev[dev].queue[1].arr, l)[n] : n \in 1..l.count}
SetDevices == IF sp.target = "Devices" THEN DOMAIN sev ELSE {}

\* The extents and the stride a launch passes are those of the tile.
ExtentsOf(l, t) ==
    /\ l.mb = sp.mb[t[1]]
    /\ l.nb = sp.nb[t[2]]
    /\ l.lda = Stride(t)

\* C35: in the Devices backend of set, all tiles placed in one batch group
\* have the mb, nb and lda that are passed to that group's kernel launch,
\* and diagonal tiles are placed in groups separate from off-diagonal
\* tiles, for every tile-size function the matrix supports, non-uniform
\* tileMb / tileNb included.
C35_GroupExtents ==
    \A dev \in SetDevices : \A l \in GesetsOf(dev) :
        \A t \in LaunchTiles(dev, l) :
            /\ ExtentsOf(l, t)
            /\ (t[1] = t[2]) <=> (l.q >= 4)

\* What the code does: diagonal and off-diagonal tiles are in separate
\* groups, and the tiles of a group have the extents and the stride of
\* the launch when the tile sizes are uniform but for the last row and the
\* last column.
SetGroupsUniform ==
    \A dev \in SetDevices : \A l \in GesetsOf(dev) :
        \A t \in LaunchTiles(dev, l) :
            /\ (t[1] = t[2]) <=> (l.q >= 4)
            /\ l.diag = (IF t[1] = t[2] THEN "diag" ELSE "offdiag")
            /\ UniformTiles => ExtentsOf(l, t)
\* The launch of group q on the queue of a device.
LaunchesOfGroup(dev, q) ==
    {k \in 2..Len(sev[dev].queue) : sev[dev].queue[k].q = q}

\* The queue of a device: one copy of the whole pointer array, then one
\* launch per non-empty group in the order of the groups, each on the
\* pointers appended for its group.
QueueInOrder(dev) ==
    LET Q == sev[dev].queue IN
    /\ Q[1].op = "memcpy"
    /\ Q[1].arr = a_array_host(dev) /\ Q[1].n = Len(Q[1].arr)
    /\ \A k \in 2..Len(Q) : Q[k].op = "geset"
    /\ \A q \in 0..7 :
          Cardinality(LaunchesOfGroup(dev, q)) =
              (IF Group(q, dev) # {} THEN 1 ELSE 0)
    /\ \A k \in 2..Len(Q) : \A n \in 2..Len(Q) :
          k < n => /\ Q[k].q < Q[n].q
                   /\ Q[k].ptr + Q[k].count <= Q[n].ptr
    /\ \A k \in 2..Len(Q) :
          /\ Q[k].ptr + Q[k].count <= Q[1].n
          /\ SliceOf(Q[1].arr, Q[k]) = InLoopVisit(Group(Q[k].q, dev))
          /\ Q[k].ptr = Len(ArrayUpTo(Q[k].q, dev))

\* C36: for each device, the Devices backend of set first acquires all its
\* tiles for writing, then performs exactly one host-to-device copy of the
\* pointer array, then one kernel launch per non-empty group, each launch
\* receiving exactly the contiguous slice of pointers that were appended
\* for that group, and synchronises the compute queue before the task
\* completes.
C36_DeviceOrder ==
    \A dev \in SetDevices :
        /\ sev[dev].ph = "start" =>
              sev[dev].acq = {} /\ sev[dev].queue = << >>
        /\ sev[dev].ph # "start" => sev[dev].acq = A_tiles_set(dev)
        /\ sev[dev].ph = "acquired" => sev[dev].queue = << >>
        /\ sev[dev].ph \in {"enqueued", "synced"} => QueueInOrder(dev)
        /\ sev[dev].ph # "synced" =>
              /\ dev \in spend
              /\ \A t \in A_tiles_set(dev) : swr[t] = << >>
        /\ (dev \notin spend \/ sst = "returned") => sev[dev].ph = "synced"

\* Two devices finished their tasks; one launched three groups, the other
\* at least two, a launch received several pointers, and on each device a
\* launch received a slice that does not start the array.
C36_Witness ==
    /\ sst = "returned" /\ sp.target = "Devices"
    /\ sp.ndev = 2
    /\ \E dev \in DOMAIN sev : Len(sev[dev].queue) >= 4
    /\ \A dev \in DOMAIN sev :
          /\ sev[dev].ph = "synced"
          /\ Len(sev[dev].queue) >= 3
          /\ \E k \in 2..Len(sev[dev].queue) : sev[dev].queue[k].ptr > 0
    /\ \E dev \in DOMAIN sev : \E k \in 2..Len(sev[dev].queue) :
          sev[dev].queue[k].count > 1

\* The pair a tile is set with.
PairOf(t) == <<"offdiag", IF t[1] = t[2] THEN "diag" ELSE "offdiag">>
LocalTrapezoid == {t \in Trapezoid : SetIsLocal(t[1], t[2])}

\* C37: internal::set on a trapezoid matrix sets every local tile (i, j) of
\* the stored trapezoid exactly once, a diagonal tile with (offdiag_value,
\* diag_value) and any other tile with (offdiag_value, offdiag_value), and
\* sets no tile outside the trapezoid or owned by another rank; in the
\* Devices backend the eight groups contain each tile of the device
\* exactly once, so batch_count equals the number of tiles acquired for
\* that device, for every mt, nt >= 1.
C37_TilesSetOnce ==
    /\ \A t \in DOMAIN swr :
          /\ Len(swr[t]) <= 1
          /\ swr[t] # << >> => (t \in LocalTrapezoid /\ swr[t][1] = PairOf(t))
    /\ sst = "returned" => \A t \in LocalTrapezoid : Len(swr[t]) = 1
    /\ \A dev \in SetDevices :
          sev[dev].queue # << >> =>
              LET arr == sev[dev].queue[1].arr IN
              /\ \A t \in sev[dev].acq :
                    /\ Cardinality({q \in 0..7 : t \in Group(q, dev)}) = 1
                    /\ Cardinality({n \in 1..Len(arr) : arr[n] = t}) = 1
              /\ \A n \in 1..Len(arr) : arr[n] \in sev[dev].acq
              /\ sev[dev].queue[1].n = Cardinality(sev[dev].acq)

\* set returned on devices for a lower matrix with more tile rows than
\* tile columns, whose corner tile is off the diagonal, on one of several
\* ranks; a device held tiles in four groups.
C37_Witness ==
    /\ sst = "returned" /\ sp.target = "Devices"
    /\ sp.uplo = "Lower" /\ sp.mt = 3 /\ sp.nt = 2
    /\ sp.p * sp.q > 1
    /\ swr[<<2, 1>>] = <<(<<"offdiag", "offdiag">>)>>
    /\ \E t \in Trapezoid : swr[t] = << >>
    /\ \E t \in Trapezoid : t[1] = t[2] /\ swr[t] = <<(<<"offdiag", "diag">>)>>
    /\ \E dev \in DOMAIN sev : Len(sev[dev].queue) >= 3
\* ------------------------------------------------------------------------
\* device::tzset and device::batch::tzset (hip/device_tzset.hip.cc)
\* ------------------------------------------------------------------------
\* Threads per block are capped at MaxThreadsPerBlock (1024 in the code).
MaxThreadsPerBlock == 2
DkMaxM == 4
DkMaxN == 3
DkMaxBatch == 2

\* The non-batched routine works on one tile; the batched one on
\* batch_count tiles.
DkCalls ==
    {c \in [uplo : {"Lower", "Upper"}, m : 0..DkMaxM, n : 0..DkMaxN,
            lda : 0..(DkMaxM + 1), batched : BOOLEAN,
            batch_count : 0..DkMaxBatch] :
        /\ c.lda \in {c.m, c.m + 1}
        /\ ~c.batched => c.batch_count = 1}

\* nthreads = std::min( int64_t( 1024 ), m )
nthreads == Min2(MaxThreadsPerBlock, kp.m)

\* dim3(1) or dim3(batch_count)
gridDim == IF kp.batched THEN kp.batch_count ELSE 1

\* hipLaunchKernelGGL rejects a launch with an empty grid or block or with
\* more threads than a block can hold; hipGetLastError returns the error.
hipGetLastError(grid, block) ==
    IF grid < 1 \/ block < 1 \/ block > MaxThreadsPerBlock
    THEN "hipErrorInvalidConfiguration" ELSE "hipSuccess"

\* The columns j of row i that tzset_func writes.
ColumnsOf(i) ==
    IF kp.uplo = "Lower"
    THEN {j \in 0..(kp.n - 1) : j <= i}
    ELSE {j \in 0..(kp.n - 1) : j >= i}

\* rowA[ j*lda ] = i == j ? diag_value : offdiag_value, for the columns of
\* row i.
WriteRow(tile, i) ==
    [a \in DOMAIN tile |->
        IF \E j \in ColumnsOf(i) : a = i + j * kp.lda
        THEN [v |-> IF a = i + i * kp.lda THEN "diag_value"
                    ELSE "offdiag_value",
              w |-> tile[a].w + 1]
        ELSE tile[a]]

DkInit ==
    /\ kp \in DkCalls
    /\ kA = [b \in 0..(kp.batch_count - 1) |->
                [a \in 0..(kp.lda * kp.n - 1) |-> [v |-> "old", w |-> 0]]]
    /\ kth = << >>
    /\ krow = [b \in 0..(kp.batch_count - 1) |->
                  [i \in 0..(kp.m - 1) |-> << >>]]
    /\ kst = "call"
    /\ CohIdle /\ ConcIdle /\ QrIdle /\ BcIdle /\ PrIdle /\ HrIdle /\ SetIdle /\ NuIdle /\ PbIdle /\ TtIdle /\ PvIdle /\ BaIdle

\* batch::tzset returns at once for an empty batch.
DkQuickReturn ==
    /\ kst = "call"
    /\ kp.batched /\ kp.batch_count = 0
    /\ kst' = "returned"
    /\ UNCHANGED <<kp, kA, kth, krow>>
    /\ UNCHANGED notDk

\* The kernel is launched with gridDim blocks of nthreads threads.
DkLaunch ==
    /\ kst = "call"
    /\ ~(kp.batched /\ kp.batch_count = 0)
    /\ hipGetLastError(gridDim, nthreads) = "hipSuccess"
    /\ kth' = [b \in 0..(gridDim - 1) |-> [t \in 0..(nthreads - 1) |-> t]]
    /\ kst' = "launched"
    /\ UNCHANGED <<kp, kA, krow>>
    /\ UNCHANGED notDk

\* slate_assert( error == hipSuccess ) fails.
DkAssertFails ==
    /\ kst = "call"
    /\ ~(kp.batched /\ kp.batch_count = 0)
    /\ hipGetLastError(gridDim, nthreads) # "hipSuccess"
    /\ kst' = "assert"
    /\ UNCHANGED <<kp, kA, kth, krow>>
    /\ UNCHANGED notDk

\* One pass of the loop over i of thread t of block b: the thread writes
\* its row and moves on by blockDim.x rows.
DkRow(b, t) ==
    /\ kst = "launched"
    /\ b \in DOMAIN kth /\ t \in DOMAIN kth[b]
    /\ kth[b][t] < kp.m
    /\ kA' = [kA EXCEPT ![b] = WriteRow(@, kth[b][t])]
    /\ krow' = [krow EXCEPT ![b][kth[b][t]] = Append(@, t)]
    /\ kth' = [kth EXCEPT ![b][t] = @ + nthreads]
    /\ UNCHANGED <<kp, kst>>
    /\ UNCHANGED notDk

\* Every thread has left its loop.
DkDone ==
    /\ kst = "launched"
    /\ \A b \in DOMAIN kth : \A t \in DOMAIN kth[b] : kth[b][t] >= kp.m
    /\ kst' = "done"
    /\ UNCHANGED <<kp, kA, kth, krow>>
    /\ UNCHANGED notDk

DkNext ==
    \/ DkQuickReturn
    \/ DkLaunch
    \/ DkAssertFails
    \/ \E b \in 0..(DkMaxBatch - 1) : \E t \in 0..(MaxThreadsPerBlock - 1) :
          DkRow(b, t)
    \/ DkDone

SpecTzset == DkInit /\ [][DkNext]_vars

\* The elements (i, j) of the m-by-n tile in the trapezoid.
InTrapezoid(i, j) ==
    /\ i \in 0..(kp.m - 1) /\ j \in 0..(kp.n - 1)
    /\ IF kp.uplo = "Lower" THEN j <= i ELSE j >= i

\* What the array of a tile holds when the trapezoid has been set.
TzsetResult ==
    [a \in 0..(kp.lda * kp.n - 1) |->
        IF \E i \in 0..(kp.m - 1) : \E j \in 0..(kp.n - 1) :
              InTrapezoid(i, j) /\ a = i + j * kp.lda
        THEN [v |-> IF a % kp.lda = a \div kp.lda
                    THEN "diag_value" ELSE "offdiag_value",
              w |-> 1]
        ELSE [v |-> "old", w |-> 0]]

\* Only elements of the trapezoid are written, each at most once and with
\* its value; no row is handled twice; at the end every element of the
\* trapezoid is written and every row was handled by one thread; an empty
\* batch launches nothing.
KernelSets ==
    /\ \A b \in DOMAIN kA : \A a \in DOMAIN kA[b] :
          kA[b][a] \in {TzsetResult[a], [v |-> "old", w |-> 0]}
    /\ \A b \in DOMAIN krow : \A i \in DOMAIN krow[b] : Len(krow[b][i]) <= 1
    /\ kst = "done" =>
          /\ \A b \in DOMAIN kA : kA[b] = TzsetResult
          /\ \A b \in DOMAIN krow : \A i \in DOMAIN krow[b] :
                Len(krow[b][i]) = 1
    /\ kst = "returned" => (kp.batch_count = 0 /\ kth = << >>)
    /\ (kp.batched /\ kp.batch_count = 0) => kst \in {"call", "returned"}

\* C38: for every documented input m >= 0, n >= 0, lda >= m, the device
\* routine tzset completes without assertion failure and writes exactly
\* the elements (i, j) of the m-by-n tile with j <= i (Lower) or j >= i
\* (Upper), diag_value where i = j and offdiag_value elsewhere; every row
\* is handled by exactly one thread, also when m exceeds the threads of
\* the block; no element outside the trapezoid is written; the batched
\* routine launches nothing when batch_count = 0.
C38_Tzset ==
    /\ kst # "assert"
    /\ KernelSets

\* What the code does: the launch fails exactly for m = 0 with a non-empty
\* batch, and whenever the kernel is launched it sets the trapezoid.
TzsetAsWritten ==
    /\ KernelSets
    /\ kst = "assert" => kp.m = 0
    /\ (kp.m = 0 /\ ~(kp.batched /\ kp.batch_count = 0)) =>
          kst \in {"call", "assert"}
\* ------------------------------------------------------------------------
\* DeviceArrays (internal/internal_batch.hh:250-376)
\* ------------------------------------------------------------------------
BaMaxBatch == 3
BaMaxDim == 3
BaMaxCalls == 3

ScalarTypes == {"float", "double", "complex<float>", "complex<double>"}

\* sizeof(scalar_t) and the size of one entry scalar_t* of the arrays, in
\* bytes.
sizeof_pointer == 8
sizeof(scalar_t) ==
    IF scalar_t = "float" THEN 4
    ELSE IF scalar_t = "complex<double>" THEN 16
    ELSE 8

\* len = std::max( sizeof(scalar_t) * batch_size * dim_, size_t(1) )
len(batch_size) ==
    IF sizeof(bap.scalar_t) * batch_size * bap.dim > 1
    THEN sizeof(bap.scalar_t) * batch_size * bap.dim ELSE 1

\* A buffer: the bytes allocated and the number of the allocation; the
\* null pointer has no bytes.
nullptr == [bytes |-> 0, id |-> 0]

\* DeviceArrays(): no arrays, batch_count_ = 0.
BaInit ==
    /\ bap \in [scalar_t : ScalarTypes, dim : 1..BaMaxDim]
    /\ ba = [array_host_ |-> nullptr, array_dev_ |-> nullptr,
             batch_count_ |-> 0, device_ |-> 0, calls |-> 0]
    /\ bal = [called |-> FALSE]
    /\ CohIdle /\ ConcIdle /\ QrIdle /\ BcIdle /\ PrIdle /\ HrIdle /\ SetIdle /\ NuIdle /\ PbIdle /\ TtIdle /\ PvIdle /\ DkIdle

\* allocateBatchArrays(batch_size, device)
allocateBatchArrays(batch_size, device) ==
    /\ ba.calls < BaMaxCalls
    /\ batch_size >= 0
    /\ ba' = IF ba.batch_count_ < batch_size
             THEN [array_host_ |-> [bytes |-> len(batch_size),
                                    id |-> ba.calls + 1],
                   array_dev_ |-> [bytes |-> len(batch_size),
                                   id |-> ba.calls + 1],
                   batch_count_ |-> batch_size,
                   device_ |-> device,
                   calls |-> ba.calls + 1]
             ELSE [ba EXCEPT !.device_ = device, !.calls = ba.calls + 1]
    /\ bal' = [called |-> TRUE, batch_size |-> batch_size, before |-> ba]
    /\ UNCHANGED bap
    /\ UNCHANGED notBa

BaNext ==
    \E batch_size \in 0..BaMaxBatch : \E device \in 0..NumDev :
        allocateBatchArrays(batch_size, device)

SpecBatchArrays == BaInit /\ [][BaNext]_vars

\* arrayHost(dim) / arrayDevice(dim): the index of the first entry of
\* array d in the buffer.
arrayHost(d) == d * ba.batch_count_
arrayDevice(d) == d * ba.batch_count_

\* The bytes of the entries first .. first + n - 1 of a buffer.
BytesOf(first, n) ==
    {b \in 0..(sizeof_pointer * (BaMaxDim * BaMaxBatch) - 1) :
        /\ sizeof_pointer * first <= b
        /\ b < sizeof_pointer * (first + n)}
Inside(buffer, first, n) == \A b \in BytesOf(first, n) : b < buffer.bytes

\* The arrays of the last call lie inside both buffers and do not overlap.
ArraysFit ==
    /\ \A d \in 0..(bap.dim - 1) :
          /\ Inside(ba.array_host_, arrayHost(d), bal.batch_size)
          /\ Inside(ba.array_dev_, arrayDevice(d), bal.batch_size)
    /\ \A d \in 0..(bap.dim - 1) : \A e \in 0..(bap.dim - 1) :
          d # e =>
              /\ BytesOf(arrayHost(d), bal.batch_size) \cap
                 BytesOf(arrayHost(e), bal.batch_size) = {}
              /\ BytesOf(arrayDevice(d), bal.batch_size) \cap
                 BytesOf(arrayDevice(e), bal.batch_size) = {}

\* A request within the capacity leaves the buffers alone; the capacity
\* never decreases.
CapacityKept ==
    /\ bal.batch_size <= bal.before.batch_count_ =>
          /\ ba.array_host_ = bal.before.array_host_
          /\ ba.array_dev_ = bal.before.array_dev_
          /\ ba.batch_count_ = bal.before.batch_count_
    /\ ba.batch_count_ >= bal.before.batch_count_
    /\ ba.batch_count_ >= bal.batch_size

\* C39: after allocateBatchArrays(batch_size, device) the host and the
\* device buffer are each large enough to hold dim_ arrays of batch_size
\* tile pointers, so that arrayHost(d)[0..batch_size-1] and
\* arrayDevice(d)[0..batch_size-1] lie inside the allocation and do not
\* overlap for distinct d < dim_, for every scalar type; a request that
\* does not exceed the current capacity leaves both buffers untouched and
\* the capacity never decreases.
C39_BatchArrays == bal.called => (ArraysFit /\ CapacityKept)

\* What the code does: the buffers hold sizeof(scalar_t) bytes per entry,
\* so the arrays fit when a scalar is at least as large as a pointer; the
\* capacity is kept for every scalar type.
BatchArraysAsWritten ==
    bal.called =>
        /\ CapacityKept
        /\ sizeof(bap.scalar_t) >= sizeof_pointer => ArraysFit
        /\ ba.batch_count_ > 0 =>
              ba.array_host_.bytes =
                  sizeof(bap.scalar_t) * ba.batch_count_ * bap.dim
====
